---- MODULE Spec2Model ----
(***************************************************************************)
(* Model of the enrichment scheduler of find-the-company: the Home         *)
(* component of src/app/page.tsx (parseTextToRows, onParse, clearInput,    *)
(* onRun with its worker pool, loadWealthManagers, enhanceWithExecutives). *)
(*                                                                         *)
(* Granularity.  JavaScript runs every handler and every continuation of   *)
(* an await to completion, and React renders between tasks, so one action  *)
(* of the model is one task: a click handler up to its first await, or the *)
(* arrival of one response (or timer) together with everything the code    *)
(* does before it next waits.  The one exception is onRun, whose           *)
(* synchronous prefix writes two different status values; it is split in   *)
(* two steps joined by the variable handler, so that the sequence of       *)
(* setStatus calls is visible.  No other action runs between the two.      *)
(*                                                                         *)
(* Projection.  A ResultRow is modelled by the fields company_name,        *)
(* homepage, phone, status and error.  Absent stands for a field that is   *)
(* undefined in the JavaScript object.                                     *)
(***************************************************************************)
EXTENDS Integers, Sequences, FiniteSets, TLC

\* ------------------------------------------------------------------ bounds
\* Longest token list handed to onParse.
MaxRows == 3
\* Longest company list the listing endpoint answers with.
MaxListing == 2
\* Number of onRun requests explored in one behaviour.
MaxRuns == 1
\* Number of loadWealthManagers requests explored in one behaviour.
MaxLoads == 1
\* Number of enhanceWithExecutives requests explored in one behaviour.
MaxEnhances == 1
\* Number of enhanceWithExecutives requests explored when the pass runs on its own.
MaxPasses == 2
\* Number of onParse / clearInput clicks explored in one behaviour.
MaxEdits == 1
\* Longest token list handed to parseTextToRows on its own.
MaxTokens == 3
\* Number of requests POST /api/company receives in one behaviour.
MaxRequests == 2
\* Longest answer text, in lines, handed to extractCompanyData on its own.
MaxLines == 3
\* Most anchors in a listing page handed to parseCompanyUrls on its own.
MaxAnchors == 3

\* Most rows of a search run explored for the published percentage.
MaxTotal == 201

\* Most table rows in a profile page handed to fetchProfileAttributes.
MaxTableRows == 3

\* --------------------------------------------------------- small universes
Absent == "<absent>"
\* An index of Array.from({ length: total }) that has not been written yet.
Hole == [hole |-> TRUE]

\* Textarea contents explored, as text.split(/\n|,/) yields their raw tokens.
AllTexts ==
  { <<"Acme">>,
    <<" acme ", "Acme", " ">>,
    <<"Fail AG", "Acme">>,
    <<"Acme", "Fail AG", "Zeta">>,
    <<"Zeta", "Acme", "Fail AG", "Yoyo">>,
    <<"Acme", "Fail AG", "Zeta", "Yoyo", "Xeno">> }

Texts == {t \in AllTexts : Len(t) <= MaxRows}

\* Tokens of the textarea contents handed to parseTextToRows on its own:
\* spellings of one name that differ in case and in surrounding blanks, a
\* longer name, a blank token and an empty one.
ParseTokens == {"Acme", "acme", "ACME Inc", " acme ", " ", ""}

RECURSIVE SeqsUpTo(_, _)
SeqsUpTo(S, n) ==
  IF n = 0 THEN {<<>>}
  ELSE LET shorter == SeqsUpTo(S, n - 1)
       IN shorter \cup {Append(t, x) : t \in {u \in shorter : Len(u) = n - 1}, x \in S}

TokenLists == SeqsUpTo(ParseTokens, MaxTokens) \ {<<>>}

\* String.prototype.trim on the token universe.
Trim(s) ==
  CASE s = " acme " -> "acme"
    [] s = " " -> ""
    [] OTHER -> s

\* String.prototype.toLowerCase on the token universe.
toLowerCase(s) ==
  CASE s = "Acme" -> "acme"
    [] s = "Fail AG" -> "fail ag"
    [] s = "ACME Inc" -> "acme inc"
    [] s = "Phone" -> "phone"
    [] s = "TELEPHONE" -> "telephone"
    [] s = "Country" -> "country"
    [] s = "City" -> "city"
    [] s = "Fax" -> "fax"
    [] OTHER -> s

\* Company lists the listing endpoint can answer with (parseCompanyUrls drops
\* empty names and deduplicates by URL, so names may repeat).
AllListings ==
  { <<>>,
    <<"Acme">>,
    <<"Fail AG", "Acme">>,
    <<"Acme", "Acme", "Fail AG">>,
    <<"Acme", "Fail AG", "Acme", "Zeta">>,
    <<"Acme", "Fail AG", "Zeta", "Acme", "Yoyo">> }

Listings == {l \in AllListings : Len(l) <= MaxListing}

\* navigator.hardwareConcurrency; 0 stands for undefined.
HardwareValues == {0, 1, 8}

Min(a, b) == IF a <= b THEN a ELSE b

\* Math.round((completed / total) * 100), half rounded up.
RoundPercent(completed, total) == (200 * completed + total) \div (2 * total)

\* ------------------------------------------------------------ parseTextToRows
\* The for loop of parseTextToRows without its Set of keys seen.
ParseLoopKeepAll(tokens, seen, rows, i) ==
  [k \in 1..Len(tokens) |-> [id |-> k, company_name |-> tokens[k], valid |-> TRUE]]

RECURSIVE ParseLoop(_, _, _, _)
ParseLoop(tokens, seen, rows, i) ==
  IF tokens = <<>> THEN rows
  ELSE LET name == Head(tokens)
           key == toLowerCase(name)
       IN IF key \in seen
          THEN ParseLoop(Tail(tokens), seen, rows, i)
          ELSE ParseLoop(Tail(tokens), seen \cup {key},
                         Append(rows, [id |-> i, company_name |-> name, valid |-> TRUE]),
                         i + 1)

parseTextToRows(raw) ==
  LET trimmed == [k \in 1..Len(raw) |-> Trim(raw[k])]
      tokens == SelectSeq(trimmed, LAMBDA t : t # "")
  IN ParseLoop(tokens, {}, <<>>, 1)

\* ------------------------------------------------------------------- state
VARIABLES
  mockMode,                 \* useState(false): no handler ever changes it
  hardwareConcurrency,      \* navigator.hardwareConcurrency of the browser
  textValue,                \* React state: the textarea, as its raw tokens
  route,                    \* POST /api/company: its requests, in arrival order
  listing,                  \* POST /api/scrape-wealth-managers: its request
  details,                  \* POST /api/scrape-wealth-managers/details: its request
  inputRows,                \* React state
  status,                   \* React state
  progress,                 \* React state
  results,                  \* React state
  isLoadingWealthManagers,  \* React state
  isEnhancing,              \* React state
  currentlyProcessing,      \* React state
  handler,                  \* "none", or "onRun" inside onRun's synchronous prefix
  runs,                     \* closures of the onRun invocations, in start order
  wm,                       \* closure of the loadWealthManagers invocation
  enh,                      \* closure of the enhanceWithExecutives invocation
  budget                    \* requests still explored: edits, runs, loads, enhances

vars == <<mockMode, hardwareConcurrency, textValue, route, listing, details, inputRows, status, progress, results,
          isLoadingWealthManagers, isEnhancing, currentlyProcessing, handler,
          runs, wm, enh, budget>>

\* State that no request handler writes.
ui == <<mockMode, hardwareConcurrency, textValue, route, listing, details>>

\* The state of the page, which no server route reads or writes.
page == <<mockMode, hardwareConcurrency, textValue, inputRows, status, progress, results,
          isLoadingWealthManagers, isEnhancing, currentlyProcessing, handler, runs, wm,
          enh, budget>>

\* pc: "idle", "listing" (list request in flight), "detail" (detail request
\* for companies[i] in flight), "delay" (the 1000 ms timer after companies[i]).
\* outcomes, enteredRunning, alerts, requests and ended record what the last
\* invocation did.
WmIdle == [pc |-> "idle", companies |-> <<>>, i |-> 0, enhancedResults |-> <<>>,
           outcomes |-> <<>>, enteredRunning |-> FALSE, alerts |-> 0, requests |-> 0,
           ended |-> "no"]

\* pc: "idle", "call" (executive lookup for entry i in flight), "delay" (the
\* 2000 ms timer after entry i).  last records the answer to the lookup for
\* entry i and answer its JSON body; lookups is the number of lookups issued
\* per entry and failed the entries whose lookup did not answer 200.
NoAnswer == [answered |-> FALSE]

EnhIdle == [pc |-> "idle", i |-> 0, enhancedResults |-> <<>>, last |-> "none",
            answer |-> NoAnswer, lookups |-> <<>>, failed |-> {}]

Init ==
  /\ mockMode \in BOOLEAN
  /\ hardwareConcurrency \in HardwareValues
  /\ textValue = <<"">>
  /\ route = <<>>
  /\ listing = [pc |-> "idle"]
  /\ details = [pc |-> "idle"]
  /\ inputRows = <<>>
  /\ status = "idle"
  /\ progress = 0
  /\ results = <<>>
  /\ isLoadingWealthManagers = FALSE
  /\ isEnhancing = FALSE
  /\ currentlyProcessing = ""
  /\ handler = "none"
  /\ runs = <<>>
  /\ wm = WmIdle
  /\ enh = EnhIdle
  /\ budget = [edits |-> MaxEdits, runs |-> MaxRuns, loads |-> MaxLoads,
               enhances |-> MaxEnhances]

\* ------------------------------------------------------- onParse, clearInput
\* The user has typed raw into the textarea and clicks "Parsen".
onParseText(raw) ==
  /\ handler = "none"
  /\ budget.edits > 0
  /\ textValue' = raw
  /\ inputRows' = SubSeq(parseTextToRows(raw), 1, Min(10000, Len(parseTextToRows(raw))))
  /\ budget' = [budget EXCEPT !.edits = @ - 1]
  /\ UNCHANGED <<mockMode, hardwareConcurrency, route, listing, details, status, progress, results,
                 isLoadingWealthManagers, isEnhancing, currentlyProcessing, handler,
                 runs, wm, enh>>

onParse == \E raw \in Texts : onParseText(raw)

clearInput ==
  /\ handler = "none"
  /\ budget.edits > 0
  /\ inputRows # <<>>
  /\ textValue' = <<"">>
  /\ inputRows' = <<>>
  /\ budget' = [budget EXCEPT !.edits = @ - 1]
  /\ UNCHANGED <<mockMode, hardwareConcurrency, route, listing, details, status, progress, results,
                 isLoadingWealthManagers, isEnhancing, currentlyProcessing, handler,
                 runs, wm, enh>>

\* ------------------------------------------------------------ result rows
\* A ResultRow is modelled by its company_name, homepage, phone, status, error,
\* ceo, cofounders and raw_text.  Absent is a property the object does not
\* have; cofounders <<>> is the property left out (the code never stores an
\* empty list).
\* JavaScript a || b on strings and optional strings.
OrElse(a, b) == IF a = "" \/ a = Absent THEN b ELSE a

\* Array.prototype.filter(Boolean) on an array with holes.
FilterBoolean(out) == SelectSeq(out, LAMBDA e : e # Hole)

\* Answers of POST /api/company as the worker sees them: a 200 answer, a
\* non-2xx answer (text: the error field of its JSON body, empty when the body
\* carries none) and a fetch that throws (text: the message of the Error).
SearchResponses ==
  { [kind |-> "ok", text |-> ""],
    [kind |-> "http", text |-> ""],
    [kind |-> "throw", text |-> ""] }

\* The catch block of worker.
WorkerCatchMissing(row, message) ==
  [company_name |-> row.company_name, homepage |-> "", phone |-> Absent,
   status |-> "ok", error |-> Absent, ceo |-> Absent, cofounders |-> <<>>,
   raw_text |-> Absent]

WorkerCatch(row, message) ==
  [company_name |-> row.company_name, homepage |-> "", phone |-> Absent,
   status |-> "error", error |-> OrElse(message, "Abruf fehlgeschlagen"), ceo |-> Absent,
   cofounders |-> <<>>, raw_text |-> Absent]

\* The body of worker up to its finally block: the entry written to out[index].
\* The route answers with company = the trimmed request name (route.ts:176).
WorkerEntry(row, resp) ==
  CASE resp.kind = "ok" ->
         [company_name |-> OrElse(Trim(row.company_name), row.company_name),
          homepage |-> "https://example.com", phone |-> Absent,
          status |-> "ok", error |-> Absent, ceo |-> Absent, cofounders |-> <<>>,
          raw_text |-> "answer"]
    [] resp.kind = "http" -> WorkerCatch(row, OrElse(resp.text, "HTTP 500"))
    [] OTHER -> WorkerCatch(row, resp.text)

\* guessDomain on the name universe.
guessDomain(name) ==
  CASE name = "Fail AG" -> "failag.com"
    [] name = "Zeta" -> "zeta.com"
    [] OTHER -> "acme.com"

\* /fail|error|unknown/i.test(name) on the name universe.
DemoFailPattern(name) == name = "Fail AG"

\* makeMock: err is the result of the pattern test and Math.random() < 0.6.
makeMock(row, err) ==
  IF err
  THEN [company_name |-> row.company_name, homepage |-> "", phone |-> Absent,
        status |-> "error", error |-> "Demo: nicht gefunden oder blockiert",
        ceo |-> Absent, cofounders |-> <<>>, raw_text |-> Absent]
  ELSE [company_name |-> row.company_name, homepage |-> guessDomain(row.company_name),
        phone |-> Absent, status |-> "ok", error |-> Absent, ceo |-> Absent,
        cofounders |-> <<>>, raw_text |-> Absent]

\* ------------------------------------------------------------------ onRun
\* onRun's filter of inputRows.
ValidRows(rows) == SelectSeq(rows, LAMBDA r : r.valid /\ Trim(r.company_name) # "")

\* Math.min(4, navigator.hardwareConcurrency || 2)
LimitIgnoringHardware(hw) == 4

Limit(hw) == Min(4, IF hw = 0 THEN 2 ELSE hw)

\* queue.shift(): the job taken and the queue left behind.
ShiftWithoutRemoving(queue) == [job |-> Head(queue), rest |-> queue]

Shift(queue) == [job |-> Head(queue), rest |-> Tail(queue)]

\* The for loop that starts the runners, starting none.
StartNoRunners(i, limit, queue, runners, calls) ==
  [queue |-> queue, runners |-> runners, calls |-> calls]

\* The for loop that starts the runners.  Each runner starts synchronously and
\* shifts its first job before the loop condition is evaluated again, so the
\* condition reads the queue as the earlier runners left it.
RECURSIVE StartRunners(_, _, _, _, _)
StartRunners(i, limit, queue, runners, calls) ==
  IF i < Min(limit, Len(queue))
  THEN LET s == Shift(queue)
       IN StartRunners(i + 1, limit, s.rest, Append(runners, s.job),
                       [calls EXCEPT ![s.job] = @ + 1])
  ELSE [queue |-> queue, runners |-> runners, calls |-> calls]

\* requested (the inputRows of the request), calls, outcomes and overtaken
\* record what the invocation did; the code reads none of them.
NewRun(requested, rows, mock) ==
  [mock |-> mock, requested |-> requested, rows |-> rows, total |-> Len(rows),
   completed |-> 0,
   out |-> [k \in 1..Len(rows) |-> Hole],
   queue |-> [k \in 1..Len(rows) |-> k],
   runners |-> <<>>,
   calls |-> [k \in 1..Len(rows) |-> 0],
   outcomes |-> [k \in 1..Len(rows) |-> "none"],
   overtaken |-> FALSE,
   finished |-> FALSE]

\* The button "Ausfuehren": disabled={!inputRows.length || status === "running"}.
RunEnabledIgnoringStatus == inputRows # <<>>

RunEnabled == inputRows # <<>> /\ status # "running"

\* onRun in real mode, up to setStatus("validating").
onRunValidate ==
  /\ handler = "none"
  /\ RunEnabled
  /\ ~mockMode
  /\ budget.runs > 0
  /\ progress' = 0
  /\ results' = <<>>
  /\ status' = "validating"
  /\ handler' = "onRun"
  /\ budget' = [budget EXCEPT !.runs = @ - 1]
  /\ UNCHANGED <<ui, inputRows, isLoadingWealthManagers, isEnhancing,
                 currentlyProcessing, runs, wm, enh>>

\* onRun in real mode, from the filter to the await of Promise.all.
onRunDispatch ==
  /\ handler = "onRun"
  /\ handler' = "none"
  /\ LET validRows == ValidRows(inputRows)
     IN IF validRows = <<>>
        THEN /\ status' = "failed"
             /\ runs' = runs
        ELSE LET run == NewRun(inputRows, validRows, FALSE)
                 started == StartRunners(0, Limit(hardwareConcurrency), run.queue,
                                         run.runners, run.calls)
             IN /\ status' = "running"
                /\ runs' = Append(runs, [run EXCEPT !.queue = started.queue,
                                                    !.runners = started.runners,
                                                    !.calls = started.calls])
  /\ UNCHANGED <<ui, inputRows, progress, results, isLoadingWealthManagers,
                 isEnhancing, currentlyProcessing, wm, enh, budget>>

\* out[index] = { ... } in worker.
StoreInCompletionOrder(run, index, entry) ==
  [run.out EXCEPT ![run.completed + 1] = entry]

StoreAt(run, index, entry) == [run.out EXCEPT ![index] = entry]

\* One answer of /api/company arrives for runner k of run r: the rest of
\* worker (catch, finally), then the runner's loop takes the next job or ends,
\* and when the last runner has ended Promise.all resolves and onRun sets done.
WorkerReturns(r, k, resp) ==
  LET run == runs[r]
      index == run.runners[k]
      entry == WorkerEntry(run.rows[index], resp)
      out2 == StoreAt(run, index, entry)
      completed2 == run.completed + 1
      more == run.queue # <<>>
      s == Shift(run.queue)
      runners2 == [run.runners EXCEPT ![k] = IF more THEN s.job ELSE 0]
      allEnded == \A j \in DOMAIN runners2 : runners2[j] = 0
  IN /\ handler = "none"
     /\ index # 0
     /\ progress' = RoundPercent(completed2, run.total)
     /\ results' = FilterBoolean(out2)
     /\ status' = IF allEnded THEN "done" ELSE status
     /\ runs' = [runs EXCEPT ![r] =
                   [run EXCEPT !.out = out2,
                               !.completed = completed2,
                               !.queue = IF more THEN s.rest ELSE run.queue,
                               !.runners = runners2,
                               !.calls = IF more THEN [run.calls EXCEPT ![s.job] = @ + 1]
                                                 ELSE run.calls,
                               !.outcomes = [run.outcomes EXCEPT ![index] = resp.kind],
                               !.overtaken = run.overtaken \/
                                             (\E j \in DOMAIN run.runners :
                                                run.runners[j] # 0 /\ run.runners[j] < index),
                               !.finished = allEnded]]
     /\ UNCHANGED <<ui, inputRows, isLoadingWealthManagers, isEnhancing,
                    currentlyProcessing, handler, wm, enh, budget>>

WorkerStep ==
  \E r \in DOMAIN runs : \E k \in DOMAIN runs[r].runners : \E resp \in SearchResponses :
    ~runs[r].mock /\ WorkerReturns(r, k, resp)

\* onRun in mock mode: one timer per row, at 300 + idx * 350 ms.
onRunMock ==
  /\ handler = "none"
  /\ RunEnabled
  /\ mockMode
  /\ budget.runs > 0
  /\ progress' = 0
  /\ results' = <<>>
  /\ status' = "running"
  /\ runs' = Append(runs, NewRun(inputRows, inputRows, TRUE))
  /\ budget' = [budget EXCEPT !.runs = @ - 1]
  /\ UNCHANGED <<ui, inputRows, isLoadingWealthManagers, isEnhancing,
                 currentlyProcessing, handler, wm, enh>>

\* The timers of a mock run expire in index order.
MockTimerFires(r, err) ==
  LET run == runs[r]
      idx == Head(run.queue)
      out2 == [run.out EXCEPT ![idx] = makeMock(run.rows[idx], err)]
      completed2 == run.completed + 1
  IN /\ handler = "none"
     /\ run.mock
     /\ run.queue # <<>>
     /\ err => DemoFailPattern(run.rows[idx].company_name)
     /\ progress' = RoundPercent(completed2, run.total)
     /\ results' = FilterBoolean(out2)
     /\ status' = IF completed2 = run.total THEN "done" ELSE status
     /\ runs' = [runs EXCEPT ![r] =
                   [run EXCEPT !.out = out2,
                               !.completed = completed2,
                               !.queue = Tail(run.queue),
                               !.outcomes = [run.outcomes EXCEPT ![idx] =
                                               IF err THEN "demo" ELSE "ok"],
                               !.finished = completed2 = run.total]]
     /\ UNCHANGED <<ui, inputRows, isLoadingWealthManagers, isEnhancing,
                    currentlyProcessing, handler, wm, enh, budget>>

MockStep == \E r \in DOMAIN runs : \E err \in BOOLEAN : MockTimerFires(r, err)

\* ------------------------------------------------------ loadWealthManagers
\* Answers of POST /api/scrape-wealth-managers as the page sees them.
ListingFailures == {"throw", "http", "nocompanies"}

\* Answers of POST /api/scrape-wealth-managers/details as the page sees them.
DetailResponses == {"ok", "http", "throw"}

\* The button "Load Wealth Managers": disabled={isLoadingWealthManagers}.
loadWealthManagers ==
  /\ handler = "none"
  /\ ~isLoadingWealthManagers
  /\ budget.loads > 0
  /\ isLoadingWealthManagers' = TRUE
  /\ status' = "running"
  /\ progress' = 0
  /\ results' = <<>>
  /\ wm' = [WmIdle EXCEPT !.pc = "listing", !.enteredRunning = TRUE]
  /\ budget' = [budget EXCEPT !.loads = @ - 1]
  /\ UNCHANGED <<ui, inputRows, isEnhancing, currentlyProcessing, handler, runs, enh>>

\* The list request throws, answers non-2xx, or answers without a companies
\* array: the outer catch and the finally block.
ListingFailsWithoutStatus(kind) ==
  /\ handler = "none"
  /\ wm.pc = "listing"
  /\ currentlyProcessing' = ""
  /\ isLoadingWealthManagers' = FALSE
  /\ wm' = [wm EXCEPT !.pc = "idle", !.alerts = @ + 1, !.ended = "failed"]
  /\ UNCHANGED <<ui, inputRows, status, progress, results, isEnhancing, handler, runs,
                 enh, budget>>

ListingFails(kind) ==
  /\ handler = "none"
  /\ wm.pc = "listing"
  /\ status' = "failed"
  /\ currentlyProcessing' = ""
  /\ isLoadingWealthManagers' = FALSE
  /\ wm' = [wm EXCEPT !.pc = "idle", !.alerts = @ + 1, !.ended = "failed"]
  /\ UNCHANGED <<ui, inputRows, progress, results, isEnhancing, handler, runs, enh,
                 budget>>

ListingFailsStep == \E kind \in ListingFailures : ListingFails(kind)

\* What the pass does when the loop over companies has ended.
LoadFinish(w) ==
  /\ status' = "done"
  /\ progress' = 100
  /\ currentlyProcessing' = ""
  /\ isLoadingWealthManagers' = FALSE
  /\ wm' = [w EXCEPT !.pc = "idle", !.ended = "done"]

\* The head of one loop iteration: setStatus, setCurrentlyProcessing, fetch.
LoadIssue(w, i) ==
  /\ status' = "running"
  /\ currentlyProcessing' = w.companies[i]
  /\ isLoadingWealthManagers' = isLoadingWealthManagers
  /\ wm' = [w EXCEPT !.pc = "detail", !.i = i, !.requests = @ + 1]

\* The list request answers with a companies array.
ListingReturns(companies) ==
  LET rows == [k \in 1..Len(companies) |->
                 [id |-> k, company_name |-> companies[k], valid |-> TRUE]]
      initialResults == [k \in 1..Len(companies) |->
                 [company_name |-> companies[k], homepage |-> Absent, phone |-> Absent,
                  status |-> "ok", error |-> Absent, ceo |-> Absent, cofounders |-> <<>>,
                  raw_text |-> Absent]]
      w == [wm EXCEPT !.companies = companies, !.enhancedResults = initialResults,
                      !.outcomes = [k \in 1..Len(companies) |-> "none"]]
  IN /\ handler = "none"
     /\ wm.pc = "listing"
     /\ inputRows' = rows
     /\ results' = initialResults
     /\ IF companies = <<>>
        THEN LoadFinish(w)
        ELSE LoadIssue(w, 1) /\ progress' = progress
     /\ UNCHANGED <<ui, isEnhancing, handler, runs, enh, budget>>

ListingReturnsStep == \E companies \in Listings : ListingReturns(companies)

\* The entry of company i after its detail request has ended with resp.
DetailEntry(entry, resp) ==
  CASE resp = "ok" -> [entry EXCEPT !.phone = "+41 22 555 1234"]
    [] resp = "throw" -> [entry EXCEPT !.status = "error", !.error = "Failed to fetch details"]
    [] OTHER -> entry

\* The detail request for companies[wm.i] ends and the next one is issued at
\* once, without the timer.
DetailReturnsNoDelay(resp) ==
  LET i == wm.i
      n == Len(wm.companies)
      enhanced2 == [wm.enhancedResults EXCEPT ![i] = DetailEntry(@, resp)]
      w == [wm EXCEPT !.enhancedResults = enhanced2, !.outcomes[i] = resp]
  IN /\ handler = "none"
     /\ wm.pc = "detail"
     /\ results' = IF resp = "http" THEN results ELSE enhanced2
     /\ IF i < n
        THEN /\ LoadIssue(w, i + 1)
             /\ progress' = IF resp = "ok" THEN RoundPercent(i, n) ELSE progress
        ELSE LoadFinish(w)
     /\ UNCHANGED <<ui, inputRows, isEnhancing, handler, runs, enh, budget>>

\* The detail request for companies[wm.i] ends; then the delay starts, or the
\* loop has ended.
DetailReturns(resp) ==
  LET i == wm.i
      n == Len(wm.companies)
      enhanced2 == [wm.enhancedResults EXCEPT ![i] = DetailEntry(@, resp)]
      w == [wm EXCEPT !.enhancedResults = enhanced2, !.outcomes[i] = resp]
  IN /\ handler = "none"
     /\ wm.pc = "detail"
     /\ results' = IF resp = "http" THEN results ELSE enhanced2
     /\ IF i < n
        THEN /\ wm' = [w EXCEPT !.pc = "delay"]
             /\ progress' = IF resp = "ok" THEN RoundPercent(i, n) ELSE progress
             /\ UNCHANGED <<status, currentlyProcessing, isLoadingWealthManagers>>
        ELSE LoadFinish(w)
     /\ UNCHANGED <<ui, inputRows, isEnhancing, handler, runs, enh, budget>>

DetailReturnsStep == \E resp \in DetailResponses : DetailReturns(resp)

\* The 1000 ms timer expires: the next iteration starts.
LoadDelayElapsed ==
  /\ handler = "none"
  /\ wm.pc = "delay"
  /\ LoadIssue(wm, wm.i + 1)
  /\ UNCHANGED <<ui, inputRows, progress, results, isEnhancing, handler, runs, enh,
                 budget>>

\* --------------------------------------------------- enhanceWithExecutives
\* Answers of POST /api/company with enhance: true as the page sees them.
EnhanceResponses == {"ok", "http", "throw"}

\* The JSON body of a 200 answer as the pass reads it.  A field that is left
\* out of the record is undefined; ceo "null" is the JSON null the route sends
\* when it found no name.
Has(data, field) == field \in DOMAIN data

\* The answer the explored page gets when the route found no executive.
NoExecutives == [structured |-> TRUE, ceo |-> "null", cofounders |-> <<>>]

\* Structured answers, answers that carry only a raw text, and an empty object.
ExecutiveAnswers ==
  { [structured |-> TRUE, ceo |-> c, cofounders |-> f] :
      c \in {"null", "", "Jane Roe", "John Doe"}, f \in {<<>>, <<"Ann">>, <<"Bob", "Cy">>} }
  \cup { [structured |-> TRUE], [structured |-> TRUE, ceo |-> "Jane Roe"],
         [structured |-> TRUE, cofounders |-> <<"Ann">>] }
  \cup { [raw_text |-> t] : t \in {"", "CEO: Jane Roe", "Founder: Ann", "nothing found"} }
  \cup { [error |-> "none"] }

\* rawText.match(/ceo[:\s]+([^.\n]+)/i) on the lower-cased text, trimmed; Absent
\* when there is no match.
CeoMatch(text) == IF text = "CEO: Jane Roe" THEN "jane roe" ELSE Absent

\* rawText.match(/(co-?founder|founder)[:\s]+([^.\n]+)/gi) with the label
\* removed from each match; <<>> when there is no match.
FounderMatches(text) == IF text = "Founder: Ann" THEN <<"ann">> ELSE <<>>

\* The assignments of the pass to enhancedResults[i], made without the tests on
\* the returned values.
MergeExecutivesOverwriting(entry, data) ==
  IF Has(data, "structured") /\ data.structured
  THEN [entry EXCEPT !.ceo = IF Has(data, "ceo") THEN data.ceo ELSE Absent,
                     !.cofounders = IF Has(data, "cofounders") THEN data.cofounders ELSE <<>>]
  ELSE entry

\* The assignments of the pass to enhancedResults[i] for a 200 answer data.
MergeExecutives(entry, data) ==
  IF Has(data, "structured") /\ data.structured
  THEN LET withCeo == IF Has(data, "ceo") /\ data.ceo \notin {"null", ""}
                      THEN [entry EXCEPT !.ceo = data.ceo] ELSE entry
       IN IF Has(data, "cofounders") /\ Len(data.cofounders) > 0
          THEN [withCeo EXCEPT !.cofounders = data.cofounders] ELSE withCeo
  ELSE IF Has(data, "raw_text") /\ data.raw_text # ""
  THEN LET withCeo == IF CeoMatch(data.raw_text) # Absent
                      THEN [entry EXCEPT !.ceo = CeoMatch(data.raw_text)] ELSE entry
           withFounders == IF FounderMatches(data.raw_text) # <<>>
                           THEN [withCeo EXCEPT !.cofounders = FounderMatches(data.raw_text)]
                           ELSE withCeo
       IN [withFounders EXCEPT !.raw_text =
             OrElse(entry.raw_text, "") \o "\n\n--- EXECUTIVE INFO ---\n" \o data.raw_text]
  ELSE entry

\* The loop's `continue`: the first entry after position i whose status is ok,
\* or 0 when the loop runs off the end.
RECURSIVE NextOk(_, _)
NextOk(entries, i) ==
  IF i >= Len(entries) THEN 0
  ELSE IF entries[i + 1].status = "ok" THEN i + 1
  ELSE NextOk(entries, i + 1)

\* The button "Enhance with CEO/Founders": disabled={!results.length || isEnhancing}.
enhanceWithExecutives ==
  /\ handler = "none"
  /\ results # <<>>
  /\ ~isEnhancing
  /\ budget.enhances > 0
  /\ LET first == NextOk(results, 0)
         none == [k \in DOMAIN results |-> 0]
     IN IF first = 0
        THEN /\ isEnhancing' = FALSE
             /\ enh' = [EnhIdle EXCEPT !.enhancedResults = results, !.lookups = none]
        ELSE /\ isEnhancing' = TRUE
             /\ enh' = [EnhIdle EXCEPT !.pc = "call", !.i = first,
                                      !.enhancedResults = results,
                                      !.lookups = [none EXCEPT ![first] = 1]]
  /\ budget' = [budget EXCEPT !.enhances = @ - 1]
  /\ UNCHANGED <<ui, inputRows, status, progress, results, isLoadingWealthManagers,
                 currentlyProcessing, handler, runs, wm>>

\* The pass without the try/catch around one lookup: a lookup that throws
\* ends the pass in the outer catch and the finally block.
EnhanceReturnsAborting(resp, data) ==
  LET enhanced2 == IF resp = "ok"
                   THEN [enh.enhancedResults EXCEPT ![enh.i] = MergeExecutives(@, data)]
                   ELSE enh.enhancedResults
      e == [enh EXCEPT !.last = resp, !.enhancedResults = enhanced2,
                       !.answer = IF resp = "ok" THEN data ELSE NoAnswer,
                       !.failed = IF resp = "ok" THEN @ ELSE @ \cup {enh.i}]
  IN /\ handler = "none"
     /\ enh.pc = "call"
     /\ results' = IF resp = "throw" THEN results ELSE enhanced2
     /\ IF resp # "throw" /\ enh.i < Len(enh.enhancedResults)
        THEN enh' = [e EXCEPT !.pc = "delay"] /\ isEnhancing' = isEnhancing
        ELSE enh' = [e EXCEPT !.pc = "idle"] /\ isEnhancing' = FALSE
     /\ UNCHANGED <<ui, inputRows, status, progress, isLoadingWealthManagers,
                    currentlyProcessing, handler, runs, wm, budget>>

\* The executive lookup for entry enh.i ends with resp; data is the JSON body
\* of a 200 answer.  The entry is merged and the copy is published.
EnhanceReturns(resp, data) ==
  LET enhanced2 == IF resp = "ok"
                   THEN [enh.enhancedResults EXCEPT ![enh.i] = MergeExecutives(@, data)]
                   ELSE enh.enhancedResults
      e == [enh EXCEPT !.last = resp, !.enhancedResults = enhanced2,
                       !.answer = IF resp = "ok" THEN data ELSE NoAnswer,
                       !.failed = IF resp = "ok" THEN @ ELSE @ \cup {enh.i}]
  IN /\ handler = "none"
     /\ enh.pc = "call"
     /\ results' = enhanced2
     /\ IF enh.i < Len(enh.enhancedResults)
        THEN enh' = [e EXCEPT !.pc = "delay"] /\ isEnhancing' = isEnhancing
        ELSE enh' = [e EXCEPT !.pc = "idle"] /\ isEnhancing' = FALSE
     /\ UNCHANGED <<ui, inputRows, status, progress, isLoadingWealthManagers,
                    currentlyProcessing, handler, runs, wm, budget>>

\* In the explored page every 200 answer is the one without executives.
EnhanceReturnsStep == \E resp \in EnhanceResponses : EnhanceReturns(resp, NoExecutives)

\* The 2000 ms timer expires: the loop goes on to the next ok entry, or ends.
EnhanceDelayElapsed ==
  /\ handler = "none"
  /\ enh.pc = "delay"
  /\ LET next == NextOk(enh.enhancedResults, enh.i)
     IN IF next = 0
        THEN enh' = [enh EXCEPT !.pc = "idle"] /\ isEnhancing' = FALSE
        ELSE /\ enh' = [enh EXCEPT !.pc = "call", !.i = next, !.last = "none",
                                   !.answer = NoAnswer, !.lookups[next] = @ + 1]
             /\ isEnhancing' = isEnhancing
  /\ UNCHANGED <<ui, inputRows, status, progress, results, isLoadingWealthManagers,
                 currentlyProcessing, handler, runs, wm, budget>>

\* ------------------------------------------------------- POST /api/company
\* JSON values of the request body's fields.
JsUndefined == [t |-> "undefined"]

JsString(s) == [t |-> "string", v |-> s]

JsBoolean(b) == [t |-> "boolean", v |-> b]

JsEmptyArray == [t |-> "array"]

\* ToBoolean, as || and if apply it.
Truthy(x) ==
  CASE x.t = "undefined" -> FALSE
    [] x.t = "string" -> x.v # ""
    [] x.t = "boolean" -> x.v
    [] OTHER -> TRUE

\* x.toString() on the values of the universe.
JsToString(x) ==
  CASE x.t = "string" -> x.v
    [] x.t = "boolean" -> IF x.v THEN "true" ELSE "false"
    [] OTHER -> ""

CompanyValues ==
  { JsUndefined, JsString(""), JsString(" "), JsString(" acme "), JsEmptyArray }

NameValues == { JsUndefined, JsString("Acme"), JsString(" ") }

EnhanceValues == { JsUndefined, JsBoolean(TRUE), JsString("false") }

\* What req.json() finds: no or unparsable JSON (the catch yields {}), the
\* JSON value null, a JSON number, or a JSON object.
Bodies ==
  { [kind |-> "unparsable"], [kind |-> "null"], [kind |-> "number"] }
  \cup { [kind |-> "object", company |-> c, name |-> n, enhance |-> e] :
           c \in CompanyValues, n \in NameValues, e \in EnhanceValues }

\* body.f for a body that is not null.
Field(body, f) == IF body.kind = "object" THEN body[f] ELSE JsUndefined

\* (body.company || body.name || '').toString().trim()
CompanyOf(body) ==
  LET c == Field(body, "company")
      n == Field(body, "name")
  IN Trim(JsToString(IF Truthy(c) THEN c ELSE IF Truthy(n) THEN n ELSE JsString("")))

\* The branch `if (enhance)` takes: which collaborator call is made.
ModeAlwaysText(body) == "text"

Mode(body) == IF Truthy(Field(body, "enhance")) THEN "object" ELSE "text"

\* An answer of generateText is a sequence of lines.  A line is the marker
\* "=== CONTACT INFO ===", the marker of another section, a labeled line
\* "Homepage: value" or "Contact Page: value" with a non-blank value, or prose.
TextLine(label, value) == [label |-> label, value |-> value]

HomepageValues == {"https://example.com", "Not found", "[company's main website URL]"}

ContactPageValues ==
  {"https://example.com/contact", "Not found", "[contact page URL if found]"}

TextLines ==
  { TextLine("marker", "CONTACT INFO"), TextLine("marker", "NOTES"),
    TextLine("prose", "I could not verify this.") }
  \cup { TextLine("homepage", v) : v \in HomepageValues }
  \cup { TextLine("contact", v) : v \in ContactPageValues }

\* Answers explored by POST /api/company: no section at all; the section with
\* a homepage and the sentinel; the section with both pages.
AnswerTexts ==
  { << TextLine("prose", "I could not verify this.") >>,
    << TextLine("marker", "CONTACT INFO"), TextLine("homepage", "https://example.com"),
       TextLine("contact", "Not found") >>,
    << TextLine("marker", "CONTACT INFO"), TextLine("homepage", "https://example.com"),
       TextLine("contact", "https://example.com/contact") >> }

\* Answers explored for extractCompanyData on its own.
AnyAnswerTexts == SeqsUpTo(TextLines, MaxLines) \ {<<>>}

\* Answers of generateObject that passed ExecutiveSchema.
AnswerObjects ==
  { [ceo |-> Absent, cofounders |-> Absent],
    [ceo |-> "Jane Roe", cofounders |-> <<"John Doe">>] }

\* Errors the collaborator call throws: no API key, a timeout, an answer that
\* cannot be read.
CallFailures == {"auth", "timeout", "malformed"}

\* value.replace(/^\[|\]$/g, '') on the value universe.
StripBrackets(s) ==
  CASE s = "[company's main website URL]" -> "company's main website URL"
    [] s = "[contact page URL if found]" -> "contact page URL if found"
    [] OTHER -> s

\* Positions of the section markers ("=== " opens every one of them).
Markers(text) == {p \in DOMAIN text : text[p].label = "marker"}

\* extractSection taking the whole text for the section.
extractSectionWholeText(text, sectionName) == text

\* extractSection: the lines after the first marker of the section, up to the
\* next "=== " or the end of the text; empty when the marker is missing.
extractSection(text, sectionName) ==
  LET opening == {p \in Markers(text) : text[p].value = sectionName}
  IN IF opening = {} THEN <<>>
     ELSE LET first == CHOOSE p \in opening : \A q \in opening : p <= q
              later == {q \in Markers(text) : q > first}
              last == IF later = {} THEN Len(text)
                      ELSE (CHOOSE q \in later : \A r \in later : q <= r) - 1
          IN SubSeq(text, first + 1, last)

\* extractAfterLabel: text.match searches the whole text, so the value is the
\* one of the first line with the label anywhere in it, or the default.
extractAfterLabel(text, label, defaultValue) ==
  LET labeled == {p \in DOMAIN text : text[p].label = label}
  IN IF labeled = {} THEN defaultValue
     ELSE text[CHOOSE p \in labeled : \A q \in labeled : p <= q].value

\* if (value && value !== 'Not found') result.field = value.replace(...)
FieldOf(value) ==
  IF value # "" /\ value # "Not found" THEN StripBrackets(value) ELSE Absent

extractCompanyData(text, companyName) ==
  LET contactInfoSection == extractSection(text, "CONTACT INFO")
      homepage == extractAfterLabel(text, "homepage", "")
      contactPage == extractAfterLabel(text, "contact", "")
  IN [company |-> companyName,
      homepage |-> IF contactInfoSection # <<>> THEN FieldOf(homepage) ELSE Absent,
      contacts |-> [contact_page |-> IF contactInfoSection # <<>> THEN FieldOf(contactPage)
                                     ELSE Absent,
                    emails |-> <<>>, phones |-> <<>>],
      executives |-> [cofounders |-> <<>>],
      sources |-> <<>>]

\* The Error thrown by the catch block of callPerplexity and of
\* callPerplexityForExecutives, as the message POST puts in its 500 answer.
PerplexityErrorUnwrapped(failure) == [prefix |-> "", detail |-> failure]

PerplexityError(failure) == [prefix |-> "Perplexity API error: ", detail |-> failure]

\* The value callPerplexity returns: the parsed record, normalised, with the
\* raw text added.
callPerplexity(company, text) ==
  LET parsed == extractCompanyData(text, company)
  IN [company |-> OrElse(parsed.company, company),
      homepage |-> parsed.homepage,
      contacts |-> parsed.contacts,
      executives |-> parsed.executives,
      sources |-> parsed.sources,
      raw_text |-> text]

\* The value callPerplexityForExecutives returns, without the defaults of
\* its return statement.
callPerplexityForExecutivesNoDefaults(company, object) ==
  [ceo |-> object.ceo, cofounders |-> object.cofounders, structured |-> TRUE]

\* The value callPerplexityForExecutives returns.
callPerplexityForExecutives(company, object) ==
  [ceo |-> IF object.ceo \in {Absent, ""} THEN "null" ELSE object.ceo,
   cofounders |-> IF object.cofounders = Absent THEN <<>> ELSE object.cofounders,
   structured |-> TRUE]

NoResponse == [status |-> 0]

\* A request arrives: POST up to its first collaborator call or its early
\* answer.  A null body makes body.company throw a TypeError, which the outer
\* catch answers with 500.
POST(body) ==
  /\ Len(route) < MaxRequests
  /\ route' = Append(route,
       IF body.kind = "null"
       THEN [body |-> body, company |-> "", pc |-> "done", textCalls |-> 0,
             objectCalls |-> 0,
             response |-> [status |-> 500,
                           error |-> [prefix |-> "", detail |-> "Cannot read properties of null"]]]
       ELSE IF CompanyOf(body) = ""
       THEN [body |-> body, company |-> "", pc |-> "done", textCalls |-> 0,
             objectCalls |-> 0,
             response |-> [status |-> 400,
                           error |-> [prefix |-> "Body must include ",
                                      detail |-> "{ \"company\": \"<name>\" }"]]]
       ELSE [body |-> body, company |-> CompanyOf(body), pc |-> Mode(body),
             textCalls |-> IF Mode(body) = "text" THEN 1 ELSE 0,
             objectCalls |-> IF Mode(body) = "object" THEN 1 ELSE 0,
             response |-> NoResponse])
  /\ UNCHANGED <<page, listing, details>>

POSTStep == \E body \in Bodies : POST(body)

\* The collaborator call of request j ends with a value: the 200 answer.
CallReturns(j, answer) ==
  /\ route[j].pc \in {"text", "object"}
  /\ route' = [route EXCEPT ![j].pc = "done",
                            ![j].response =
                              [status |-> 200,
                               json |-> IF route[j].pc = "text"
                                        THEN callPerplexity(route[j].company, answer)
                                        ELSE callPerplexityForExecutives(route[j].company,
                                                                         answer)]]
  /\ UNCHANGED <<page, listing, details>>

CallReturnsStep ==
  \E j \in DOMAIN route :
    \/ route[j].pc = "text" /\ \E text \in AnswerTexts : CallReturns(j, text)
    \/ route[j].pc = "object" /\ \E object \in AnswerObjects : CallReturns(j, object)

\* The collaborator call of request j throws: the catch of the call wraps the
\* error, the catch of POST answers 500 with its message.
CallThrows(j, failure) ==
  /\ route[j].pc \in {"text", "object"}
  /\ route' = [route EXCEPT ![j].pc = "done",
                            ![j].response = [status |-> 500,
                                             error |-> PerplexityError(failure)]]
  /\ UNCHANGED <<page, listing, details>>

CallThrowsStep == \E j \in DOMAIN route : \E failure \in CallFailures : CallThrows(j, failure)

\* ---------------------------------- POST /api/scrape-wealth-managers/details
\* The record fetchProfileAttributes starts from and returns on a failure; a
\* field that is Absent is a property the object does not have.
NoAttributes == [phone |-> Absent, country |-> Absent, city |-> Absent]

\* The html of a POST before fetchHTML has returned.
NotFetched == [fetched |-> FALSE]

\* A row of a profile page: where it stands and the texts of its td cells.
\* scope "page": in a table outside the profile section; "section": in a table
\* inside the table-responsive div of the profile section; "sectionBare": in
\* that div but in no table element.
TableRow(scope, cells) == [scope |-> scope, cells |-> cells]

RowScopes == {"page", "section", "sectionBare"}

RowCells ==
  { <<"Phone", "111">>, <<"TELEPHONE", "222">>, <<"tel", "333">>, <<"Phone:", ": :">>,
    <<"Phone", "", "444">>, <<"Country", "Germany">>, <<"City", "Berlin">>,
    <<"Fax", "555">> }

TableRows == {TableRow(sc, c) : sc \in RowScopes, c \in RowCells}

\* Profile pages: their rows in document order.
ProfilePages == SeqsUpTo(TableRows, MaxTableRows)

\* cellMatch[1].replace(/<[^>]*>/g, '').trim().replace(/^:+|:+$/g, '')
CellText(raw) ==
  CASE raw = "Phone:" -> "Phone"
    [] raw = ": :" -> " "
    [] OTHER -> raw

\* The cells array of a row: the texts of its cells that are not empty.
CellsOf(row) ==
  LET texts == [k \in DOMAIN row.cells |-> CellText(row.cells[k])]
  IN SelectSeq(texts, LAMBDA t : t # "")

PhoneKeys == {"phone", "telephone", "tel"}

\* The body of a row loop without the tests that a field is still unset.
RowStepOverwriting(result, row) ==
  LET cells == CellsOf(row)
      key == Trim(toLowerCase(cells[1]))
      value == Trim(cells[2])
  IN IF Len(cells) < 2 THEN result
     ELSE IF key \in PhoneKeys /\ value # "" THEN [result EXCEPT !.phone = value]
     ELSE IF key = "country" /\ value # "" THEN [result EXCEPT !.country = value]
     ELSE IF key = "city" /\ value # "" THEN [result EXCEPT !.city = value]
     ELSE result

\* The body of a row loop: the if / else-if chain on key and value.
RowStep(result, row) ==
  LET cells == CellsOf(row)
      key == Trim(toLowerCase(cells[1]))
      value == Trim(cells[2])
  IN IF Len(cells) < 2 THEN result
     ELSE IF key \in PhoneKeys /\ value # "" /\ result.phone = Absent
     THEN [result EXCEPT !.phone = value]
     ELSE IF key = "country" /\ value # "" /\ result.country = Absent
     THEN [result EXCEPT !.country = value]
     ELSE IF key = "city" /\ value # "" /\ result.city = Absent
     THEN [result EXCEPT !.city = value]
     ELSE result

\* A row loop over rows, in order.
RECURSIVE RowLoop(_, _)
RowLoop(rows, result) ==
  IF rows = <<>> THEN result ELSE RowLoop(Tail(rows), RowStep(result, Head(rows)))

\* Rows inside table elements, which the first scan visits.
InTables(html) == SelectSeq(html, LAMBDA row : row.scope \in {"page", "section"})

\* Rows inside the table-responsive div of the profile section, which the
\* second scan visits.
InProfileSection(html) == SelectSeq(html, LAMBDA row : row.scope \in {"section", "sectionBare"})

\* fetchProfileAttributes once fetchHTML has returned html: the scan of every
\* table, then the scan of the profile section, on the same result.
ProfileAttributesOf(html) ==
  RowLoop(InProfileSection(html), RowLoop(InTables(html), NoAttributes))

\* Ways fetchProfileAttributes fails inside its try: fetch rejects, the answer
\* is not 2xx, or reading the text of the answer rejects.
ProfileFailures == {"network", "http", "text"}

\* The url field of a body: left out, an empty string, or a profile URL.
UrlValues == {JsUndefined, JsString(""), JsString("https://dev.swfinstitute.org/profile/acme")}

DetailsBodies ==
  { [kind |-> "unparsable"], [kind |-> "null"] }
  \cup { [kind |-> "object", url |-> u] : u \in UrlValues }

\* const { url } = body, for a body that is not null.
UrlOf(body) == IF body.kind = "object" THEN body.url ELSE JsUndefined

\* The request arrives: POST up to its 400 or 500 answer, or up to the await of
\* fetchHTML(url) inside fetchProfileAttributes.
DetailsPOST(body) ==
  /\ details.pc = "idle"
  /\ details' =
       IF body.kind = "null"
       THEN [pc |-> "done", body |-> body, html |-> NotFetched, failure |-> "none",
             response |-> [status |-> 500, error |-> "Cannot destructure property of null"]]
       ELSE IF ~Truthy(UrlOf(body))
       THEN [pc |-> "done", body |-> body, html |-> NotFetched, failure |-> "none",
             response |-> [status |-> 400, error |-> "URL is required"]]
       ELSE [pc |-> "fetching", body |-> body, html |-> NotFetched, failure |-> "none",
             response |-> NoResponse]
  /\ UNCHANGED <<page, route, listing>>

DetailsPOSTStep == \E body \in DetailsBodies : DetailsPOST(body)

\* fetchHTML(url) returns the profile page: the two scans, then the 200 answer.
ProfileArrives(html) ==
  /\ details.pc = "fetching"
  /\ details' = [details EXCEPT !.pc = "done", !.html = html,
                                !.response = [status |-> 200, json |-> ProfileAttributesOf(html)]]
  /\ UNCHANGED <<page, route, listing>>

ProfileArrivesStep ==
  /\ details.pc = "fetching"
  /\ \E html \in ProfilePages : ProfileArrives(html)

\* fetchHTML(url) throws: the catch of fetchProfileAttributes returns {}.
ProfileFails(failure) ==
  /\ details.pc = "fetching"
  /\ details' = [details EXCEPT !.pc = "done", !.failure = failure,
                                !.response = [status |-> 200, json |-> NoAttributes]]
  /\ UNCHANGED <<page, route, listing>>

ProfileFailsStep == \E failure \in ProfileFailures : ProfileFails(failure)

\* ------------------------------------------ POST /api/scrape-wealth-managers
BASE_URL == "https://dev.swfinstitute.org"

TARGET_URL == "https://dev.swfinstitute.org/profiles/wealth-manager/europe"

\* const { fetchDetails = false, limit = 5 } = body
DefaultLimit == 5

\* An anchor of the listing page: its href and the name the loop derives from
\* its title element or its text ("" when that is blank).
Anchor(href, name) == [href |-> href, name |-> name]

Hrefs ==
  { "/profile/acme", "https://dev.swfinstitute.org/profile/acme", "/profile/zeta",
    "/profile/yoyo", "/about/team" }

AnchorNames == {"Acme", "Acme Ltd", ""}

Anchors == {Anchor(h, n) : h \in Hrefs, n \in AnchorNames}

\* The anchor pattern matches only an href that contains /profile/.
ContainsProfile(href) == href # "/about/team"

\* href.startsWith('http') ? href : `${BASE_URL}${href}`
Resolve(href) ==
  CASE href = "/profile/acme" -> "https://dev.swfinstitute.org/profile/acme"
    [] href = "/profile/zeta" -> "https://dev.swfinstitute.org/profile/zeta"
    [] href = "/profile/yoyo" -> "https://dev.swfinstitute.org/profile/yoyo"
    [] href = "/about/team" -> "https://dev.swfinstitute.org/about/team"
    [] OTHER -> href

\* The while loop of parseCompanyUrls without its Set of URLs seen.
AnchorLoopKeepAll(anchors, seen, companies) ==
  LET kept == SelectSeq(anchors, LAMBDA a : ContainsProfile(a.href) /\ a.name # "")
  IN [k \in 1..Len(kept) |-> [company_name |-> kept[k].name, url |-> Resolve(kept[k].href)]]

\* The while loop of parseCompanyUrls over the anchors of the container.
RECURSIVE AnchorLoop(_, _, _)
AnchorLoop(anchors, seen, companies) ==
  IF anchors = <<>> THEN companies
  ELSE LET a == Head(anchors)
           fullUrl == Resolve(a.href)
       IN IF ~ContainsProfile(a.href) \/ a.name = "" \/ fullUrl \in seen
          THEN AnchorLoop(Tail(anchors), seen, companies)
          ELSE AnchorLoop(Tail(anchors), seen \cup {fullUrl},
                          Append(companies, [company_name |-> a.name, url |-> fullUrl]))

\* A listing page: whether it has the list-group container, and its anchors
\* in document order (inside the container when there is one).
ListingPage(container, anchors) == [container |-> container, anchors |-> anchors]

parseCompanyUrls(html) ==
  IF ~html.container THEN <<>> ELSE AnchorLoop(html.anchors, {}, <<>>)

\* Listing pages explored by the route: none, one, two and three discovered
\* entries, and a page without the container.
ListingPages ==
  { ListingPage(TRUE, <<>>),
    ListingPage(TRUE, << Anchor("/profile/zeta", "Acme Ltd") >>),
    ListingPage(TRUE, << Anchor("/profile/acme", "Acme"), Anchor("/about/team", "Acme"),
                         Anchor("/profile/zeta", "Acme Ltd") >>),
    ListingPage(TRUE, << Anchor("/profile/yoyo", "Acme"), Anchor("/profile/acme", "Acme Ltd"),
                         Anchor("/profile/zeta", "Acme") >>),
    ListingPage(FALSE, << Anchor("/profile/acme", "Acme") >>) }

\* Listing pages explored for parseCompanyUrls on its own.
AnyListingPages ==
  {ListingPage(c, a) : c \in BOOLEAN, a \in SeqsUpTo(Anchors, MaxAnchors)}

\* The limit field of a body: left out, or given as a number.
LimitLeftOut == <<>>

LimitGiven(n) == <<n>>

LimitValues == {LimitLeftOut, LimitGiven(1), LimitGiven(2)}

\* Request bodies of the list endpoint; Absent stands for a field left out.
ListingBodies ==
  { [kind |-> "unparsable"], [kind |-> "null"] }
  \cup { [kind |-> "object", fetchDetails |-> f, limit |-> l] :
           f \in {Absent, "false", "true"}, l \in LimitValues }

FetchDetailsOf(body) ==
  IF body.kind = "object" /\ body.fetchDetails # Absent THEN body.fetchDetails = "true"
  ELSE FALSE

\* The limit of a body when the field is never read.
LimitOfIgnoringBody(body) == DefaultLimit

LimitOf(body) ==
  IF body.kind = "object" /\ body.limit # LimitLeftOut THEN body.limit[1]
  ELSE DefaultLimit

\* Ways fetchHTML fails: fetch rejects, or the answer is not 2xx.
FetchFailures == {"network", "http"}

\* The request arrives: POST up to the await of fetchHTML(TARGET_URL).  A null
\* body makes the destructuring throw, which the catch answers with 500.
ListPOST(body) ==
  /\ listing.pc = "idle"
  /\ listing' =
       IF body.kind = "null"
       THEN [pc |-> "done", body |-> body, fetched |-> <<>>, html |-> NotFetched,
             companies |-> <<>>, i |-> 0,
             detailedCompanies |-> <<>>, profiles |-> <<>>,
             response |-> [status |-> 500, error |-> "Cannot destructure property of null"]]
       ELSE [pc |-> "fetching", body |-> body, fetched |-> <<TARGET_URL>>, html |-> NotFetched,
             companies |-> <<>>, i |-> 0, detailedCompanies |-> <<>>, profiles |-> <<>>,
             response |-> NoResponse]
  /\ UNCHANGED <<page, route, details>>

ListPOSTStep == \E body \in ListingBodies : ListPOST(body)

\* The 200 answer of the list endpoint.
ListAnswer(companies, total) ==
  [status |-> 200, json |-> [companies |-> companies, total |-> total]]

\* The listing page arrives: parseCompanyUrls, then the answer with the list
\* cut to the limit, or the first profile request of the fetchDetails loop.
ListingFetched(html) ==
  LET companies == parseCompanyUrls(html)
      actualLimit == Min(LimitOf(listing.body), Len(companies))
  IN /\ listing.pc = "fetching"
     /\ listing' =
          IF ~FetchDetailsOf(listing.body)
          THEN [listing EXCEPT !.pc = "done", !.html = html, !.companies = companies,
                               !.response = ListAnswer(SubSeq(companies, 1, actualLimit),
                                                       Len(companies))]
          ELSE IF actualLimit = 0
          THEN [listing EXCEPT !.pc = "done", !.html = html, !.companies = companies,
                               !.response = ListAnswer(<<>>, Len(companies))]
          ELSE [listing EXCEPT !.pc = "profile", !.html = html, !.companies = companies,
                               !.i = 1,
                               !.fetched = Append(@, companies[1].url)]
     /\ UNCHANGED <<page, route, details>>

ListingFetchedStep == \E html \in ListingPages : ListingFetched(html)

\* fetchHTML(TARGET_URL) throws and POST answers with an empty list instead.
ListingFetchFailsQuietly(failure) ==
  /\ listing.pc = "fetching"
  /\ listing' = [listing EXCEPT !.pc = "done", !.response = ListAnswer(<<>>, 0)]
  /\ UNCHANGED <<page, route, details>>

\* fetchHTML(TARGET_URL) throws: the catch of POST answers 500.
ListingFetchFails(failure) ==
  /\ listing.pc = "fetching"
  /\ listing' = [listing EXCEPT !.pc = "done",
                                !.response = [status |-> 500, error |-> failure]]
  /\ UNCHANGED <<page, route, details>>

ListingFetchFailsStep == \E failure \in FetchFailures : ListingFetchFails(failure)

\* cellMatch[1].replace(/<[^>]*>/g, '').trim().replace(':', '') of the list
\* route: only the first colon is removed.
InlineCellText(raw) ==
  CASE raw = "Phone:" -> "Phone"
    [] raw = ": :" -> " :"
    [] OTHER -> raw

\* The body of the row loop of the list route's fetchProfileAttributes: every
\* cell is kept, and a row counts when it has exactly two.
InlineRowStep(result, row) ==
  LET cells == [k \in DOMAIN row.cells |-> InlineCellText(row.cells[k])]
      key == toLowerCase(cells[1])
      value == cells[2]
  IN IF Len(cells) # 2 THEN result
     ELSE IF key = "phone" /\ value # "" THEN [result EXCEPT !.phone = value]
     ELSE IF key = "country" /\ value # "" THEN [result EXCEPT !.country = value]
     ELSE IF key = "city" /\ value # "" THEN [result EXCEPT !.city = value]
     ELSE result

RECURSIVE InlineRowLoop(_, _)
InlineRowLoop(rows, result) ==
  IF rows = <<>> THEN result
  ELSE InlineRowLoop(Tail(rows), InlineRowStep(result, Head(rows)))

\* fetchProfileAttributes of the list route once fetchHTML has returned html:
\* the rows of the first table-responsive div, which in the pages explored is
\* the one of the profile section.
InlineAttributesOf(html) == InlineRowLoop(InProfileSection(html), NoAttributes)

\* Profile pages explored by the list route.
ListedProfiles ==
  { <<>>,
    << TableRow("section", <<"Phone", "111">>), TableRow("section", <<"Country", "Germany">>),
       TableRow("section", <<"City", "Berlin">>) >> }

\* The body of the fetchDetails loop after fetchProfileAttributes has returned
\* attributes for company i: the entry is pushed, then the delay starts or the
\* answer is given.  profile records what was fetched.
ProfilePushed(profile, attributes) ==
  LET i == listing.i
      actualLimit == Min(LimitOf(listing.body), Len(listing.companies))
      detailed == Append(listing.detailedCompanies,
                         [company_name |-> listing.companies[i].company_name,
                          url |-> listing.companies[i].url,
                          phone |-> attributes.phone, country |-> attributes.country,
                          city |-> attributes.city])
      l == [listing EXCEPT !.detailedCompanies = detailed,
                           !.profiles = Append(@, profile)]
  IN /\ listing.pc = "profile"
     /\ listing' =
          IF i < actualLimit
          THEN [l EXCEPT !.pc = "delay"]
          ELSE [l EXCEPT !.pc = "done",
                         !.response = ListAnswer(detailed, Len(listing.companies))]
     /\ UNCHANGED <<page, route, details>>

\* fetchHTML(company.url) returns the profile page.
ProfileFetched(html) ==
  ProfilePushed([ok |-> TRUE, html |-> html], InlineAttributesOf(html))

ProfileFetchedStep == \E html \in ListedProfiles : ProfileFetched(html)

\* fetchHTML(company.url) throws: the catch of fetchProfileAttributes returns {}.
ProfileFetchFails(failure) ==
  ProfilePushed([ok |-> FALSE, failure |-> failure], NoAttributes)

ProfileFetchFailsStep == \E failure \in FetchFailures : ProfileFetchFails(failure)

\* The 1000 ms timer of the fetchDetails loop expires: the next profile.
ListDelayElapsed ==
  /\ listing.pc = "delay"
  /\ listing' = [listing EXCEPT !.pc = "profile", !.i = @ + 1,
                                !.fetched = Append(@, listing.companies[listing.i + 1].url)]
  /\ UNCHANGED <<page, route, details>>

\* ------------------------------------------------------------ specifications
\* The search run on its own: a text is parsed and run, in real or mock mode.
NextSearch ==
  \/ onParse
  \/ onRunValidate
  \/ onRunDispatch
  \/ WorkerStep
  \/ onRunMock
  \/ MockStep

SpecSearch == Init /\ [][NextSearch]_vars

\* parseTextToRows on its own: any token list is typed and parsed.
onParseAny == \E raw \in TokenLists : onParseText(raw)

NextParse == onParseAny

SpecParse == Init /\ [][NextParse]_vars

\* POST /api/company on its own, serving MaxRequests requests.
NextRoute ==
  \/ POSTStep
  \/ CallReturnsStep
  \/ CallThrowsStep

\* The handler runs on the server and reads no state of the page.
InitRoute == Init /\ ~mockMode /\ hardwareConcurrency = 0

SpecRoute == InitRoute /\ [][NextRoute]_vars

\* extractCompanyData on its own: one contact request, answered with any text.
ContactRequest ==
  /\ route = <<>>
  /\ POST([kind |-> "object", company |-> JsString(" acme "), name |-> JsUndefined,
           enhance |-> JsUndefined])

AnyTextReturns ==
  \E j \in DOMAIN route : \E text \in AnyAnswerTexts :
    route[j].pc = "text" /\ CallReturns(j, text)

NextExtract ==
  \/ ContactRequest
  \/ AnyTextReturns

SpecExtract == InitRoute /\ [][NextExtract]_vars

\* The list endpoint on its own, serving one request.
NextList ==
  \/ ListPOSTStep
  \/ ListingFetchedStep
  \/ ListingFetchFailsStep
  \/ ProfileFetchedStep
  \/ ProfileFetchFailsStep
  \/ ListDelayElapsed

SpecList == InitRoute /\ [][NextList]_vars

\* parseCompanyUrls on its own: one request for the plain list, answered with
\* any listing page.
PlainListRequest ==
  \E limit \in LimitValues :
    ListPOST([kind |-> "object", fetchDetails |-> Absent, limit |-> limit])

AnyListingFetched ==
  /\ listing.pc = "fetching"
  /\ \E html \in AnyListingPages : ListingFetched(html)

NextParseUrls ==
  \/ PlainListRequest
  \/ AnyListingFetched

SpecParseUrls == InitRoute /\ [][NextParseUrls]_vars

\* The details endpoint on its own, serving one request.
NextDetails ==
  \/ DetailsPOSTStep
  \/ ProfileArrivesStep
  \/ ProfileFailsStep

SpecDetails == InitRoute /\ [][NextDetails]_vars

\* The list route's fetchProfileAttributes on its own: one request with
\* fetchDetails for one company, whose profile is any profile page.
DetailedListRequest ==
  ListPOST([kind |-> "object", fetchDetails |-> "true", limit |-> LimitGiven(1)])

AnyProfileFetched ==
  /\ listing.pc = "profile"
  /\ \E html \in ProfilePages : ProfileFetched(html)

NextInline ==
  \/ DetailedListRequest
  \/ ListingFetchedStep
  \/ AnyProfileFetched

SpecInline == InitRoute /\ [][NextInline]_vars

\* The published percentage of a long search run.  The run starts from the
\* page after a list of n distinct names (the numerals 1..n) has been typed
\* and parsed: parseTextToRows returns them unchanged, numbered 1..n.  A single
\* runner serves the run and every call answers 200.
NumberedRows(n) == [k \in 1..n |-> [id |-> k, company_name |-> ToString(k), valid |-> TRUE]]

InitProgress ==
  \E n \in 1..MaxTotal :
    /\ mockMode = FALSE
    /\ hardwareConcurrency = 1
    /\ textValue = [k \in 1..n |-> ToString(k)]
    /\ route = <<>>
    /\ listing = [pc |-> "idle"]
    /\ details = [pc |-> "idle"]
    /\ inputRows = NumberedRows(n)
    /\ status = "idle"
    /\ progress = 0
    /\ results = <<>>
    /\ isLoadingWealthManagers = FALSE
    /\ isEnhancing = FALSE
    /\ currentlyProcessing = ""
    /\ handler = "none"
    /\ runs = <<>>
    /\ wm = WmIdle
    /\ enh = EnhIdle
    /\ budget = [edits |-> 0, runs |-> MaxRuns, loads |-> 0, enhances |-> 0]

WorkerReturnsOk ==
  \E r \in DOMAIN runs : \E k \in DOMAIN runs[r].runners :
    WorkerReturns(r, k, [kind |-> "ok", text |-> ""])

NextProgress ==
  \/ onRunValidate
  \/ onRunDispatch
  \/ WorkerReturnsOk

SpecProgress == InitProgress /\ [][NextProgress]_vars

\* The enhance pass on its own, over the table a finished directory pass has
\* left: every entry is ok, or error when its detail request threw.  The answers
\* to the lookups range over ExecutiveAnswers, and the button can be pressed
\* MaxPasses times, so that a later pass meets the values an earlier one stored.
LoadedTable(companies, outcomes) ==
  [k \in 1..Len(companies) |->
     DetailEntry([company_name |-> companies[k], homepage |-> Absent, phone |-> Absent,
                  status |-> "ok", error |-> Absent, ceo |-> Absent, cofounders |-> <<>>,
                  raw_text |-> Absent], outcomes[k])]

InitEnhance ==
  \E companies \in Listings \ {<<>>} :
    \E outcomes \in [1..Len(companies) -> DetailResponses] :
      /\ mockMode = FALSE
      /\ hardwareConcurrency = 1
      /\ textValue = <<"">>
      /\ route = <<>>
      /\ listing = [pc |-> "idle"]
      /\ details = [pc |-> "idle"]
      /\ inputRows = [k \in 1..Len(companies) |->
                        [id |-> k, company_name |-> companies[k], valid |-> TRUE]]
      /\ status = "done"
      /\ progress = 100
      /\ results = LoadedTable(companies, outcomes)
      /\ isLoadingWealthManagers = FALSE
      /\ isEnhancing = FALSE
      /\ currentlyProcessing = ""
      /\ handler = "none"
      /\ runs = <<>>
      /\ wm = [WmIdle EXCEPT !.companies = companies, !.i = Len(companies),
                             !.enhancedResults = LoadedTable(companies, outcomes),
                             !.outcomes = outcomes, !.enteredRunning = TRUE,
                             !.requests = Len(companies), !.ended = "done"]
      /\ enh = EnhIdle
      /\ budget = [edits |-> 0, runs |-> 0, loads |-> 0, enhances |-> MaxPasses]

AnyEnhanceReturns ==
  /\ enh.pc = "call"
  /\ \/ \E data \in ExecutiveAnswers : EnhanceReturns("ok", data)
     \/ \E resp \in EnhanceResponses \ {"ok"} : EnhanceReturns(resp, NoExecutives)

NextEnhance ==
  \/ enhanceWithExecutives
  \/ AnyEnhanceReturns
  \/ EnhanceDelayElapsed

SpecEnhance == InitEnhance /\ [][NextEnhance]_vars

\* Every lookup is answered and every timer expires.
LookupsAnswered ==
  /\ WF_vars(AnyEnhanceReturns)
  /\ WF_vars(EnhanceDelayElapsed)

SpecEnhanceFair == SpecEnhance /\ LookupsAnswered

\* The directory pass and the enhance pass, without a search run.
NextLoad ==
  \/ clearInput
  \/ loadWealthManagers
  \/ ListingFailsStep
  \/ ListingReturnsStep
  \/ DetailReturnsStep
  \/ LoadDelayElapsed
  \/ enhanceWithExecutives
  \/ EnhanceReturnsStep
  \/ EnhanceDelayElapsed

SpecLoad == Init /\ [][NextLoad]_vars

\* The whole page: every handler the user can start, interleaved.
Next ==
  \/ onParse
  \/ clearInput
  \/ onRunValidate
  \/ onRunDispatch
  \/ WorkerStep
  \/ onRunMock
  \/ MockStep
  \/ loadWealthManagers
  \/ ListingFailsStep
  \/ ListingReturnsStep
  \/ DetailReturnsStep
  \/ LoadDelayElapsed
  \/ enhanceWithExecutives
  \/ EnhanceReturnsStep
  \/ EnhanceDelayElapsed

Spec == Init /\ [][Next]_vars

\* The primary passes (search run, mock run, directory pass) interleaved, with
\* the scheduling the runtime provides: the rest of a started handler runs, a
\* pending timer fires, and every request that was sent is answered or fails.
NextPrimary ==
  \/ onParse
  \/ onRunValidate
  \/ onRunDispatch
  \/ WorkerStep
  \/ onRunMock
  \/ MockStep
  \/ loadWealthManagers
  \/ ListingFailsStep
  \/ ListingReturnsStep
  \/ DetailReturnsStep
  \/ LoadDelayElapsed

CallsAnswered ==
  /\ WF_vars(onRunDispatch)
  /\ WF_vars(WorkerStep)
  /\ WF_vars(MockStep)
  /\ WF_vars(ListingFailsStep \/ ListingReturnsStep)
  /\ WF_vars(DetailReturnsStep)
  /\ WF_vars(LoadDelayElapsed)

SpecPrimaryFair == Init /\ [][NextPrimary]_vars /\ CallsAnswered

\* ================================================================== claims
InFlight(run) == Cardinality({k \in DOMAIN run.runners : run.runners[k] # 0})

RealRuns == {r \in DOMAIN runs : ~runs[r].mock}

\* The step in which run r ends: its last worker returns and onRun sets done.
Finishes(r) == r \in DOMAIN runs /\ ~runs[r].finished /\ runs'[r].finished

\* Positions of the requested rows that have a non-empty trimmed name.
ValidPositions(requested) ==
  {k \in DOMAIN requested : requested[k].valid /\ Trim(requested[k].company_name) # ""}

\* The i-th smallest element of a set of positions.
IthOf(S, i) == CHOOSE k \in S : Cardinality({j \in S : j <= k}) = i

\* C1: in a real search run the number of /api/company calls in flight never
\* exceeds min(K, N), K = min(4, hardwareConcurrency or 2), N = valid rows.
C1_ConcurrencyBound ==
  \A r \in RealRuns :
    InFlight(runs[r]) <=
      Min(Min(4, IF hardwareConcurrency = 0 THEN 2 ELSE hardwareConcurrency),
          Cardinality(ValidPositions(runs[r].requested)))

\* A run with more identifiers than the budget K = 2 and K calls in flight.
C1_Witness ==
  \E r \in RealRuns :
    /\ hardwareConcurrency = 0
    /\ runs[r].total > 2
    /\ InFlight(runs[r]) = 2

\* C2: every valid identifier of a real search run is taken from the queue
\* and called exactly once: never by two workers, none skipped, and none
\* called again after its call has ended, failed or not.
C2_ExactlyOnce ==
  \A r \in RealRuns :
    LET run == runs[r]
        queued == {run.queue[q] : q \in DOMAIN run.queue}
        flying == {run.runners[k] : k \in DOMAIN run.runners} \ {0}
    IN /\ \A i \in 1..run.total :
            /\ run.calls[i] <= 1
            /\ run.calls[i] = 0 <=> i \in queued
            /\ run.outcomes[i] # "none" => i \notin queued \cup flying
            /\ run.finished => run.calls[i] = 1 /\ run.outcomes[i] # "none"
       /\ \A j, k \in DOMAIN run.runners :
            j # k /\ run.runners[j] # 0 => run.runners[j] # run.runners[k]

\* A finished run of three identifiers of which one failed.
C2_Witness ==
  \E r \in RealRuns :
    /\ runs[r].finished
    /\ runs[r].total = 3
    /\ \E i \in 1..3 : runs[r].outcomes[i] = "throw"
    /\ \A i \in 1..3 : runs[r].calls[i] = 1

\* C3: in the step in which a real search run reaches Done, the published
\* table has one entry per valid identifier of the request and the entry at
\* position i carries the name of the i-th valid identifier.
C3_FinalTableAligned ==
  [][\A r \in RealRuns :
       Finishes(r) =>
         LET valid == ValidPositions(runs[r].requested)
         IN /\ status' = "done"
            /\ Len(results') = Cardinality(valid)
            /\ \A i \in 1..Len(results') :
                 results'[i].company_name =
                   runs[r].requested[IthOf(valid, i)].company_name]_vars

\* A run of three identifiers has reached Done although a later identifier
\* completed before an earlier one, and its table is the published one.
C3_Witness ==
  \E r \in RealRuns :
    /\ runs[r].finished
    /\ runs[r].overtaken
    /\ runs[r].total = 3
    /\ status = "done"
    /\ results = runs[r].out

\* C4: when exactly one call of a real search run fails, the table published
\* as the run reaches Done has ERROR at that identifier's position and OK
\* everywhere else; and an unfinished run always has a worker in flight, so a
\* failure stops nobody.
C4_SingleFailureIsolated ==
  /\ [](\A r \in RealRuns : ~runs[r].finished => InFlight(runs[r]) >= 1)
  /\ [][\A r \in RealRuns :
          Finishes(r) =>
            LET failed == {i \in 1..runs[r].total : runs'[r].outcomes[i] # "ok"}
            IN Cardinality(failed) = 1 =>
                 /\ status' = "done"
                 /\ Len(results') = runs[r].total
                 /\ \A i \in 1..runs[r].total :
                      results'[i].status = IF i \in failed THEN "error" ELSE "ok"]_vars

\* A finished run of three identifiers in which exactly the second call failed
\* and the calls after it were still made.
C4_Witness ==
  \E r \in RealRuns :
    /\ runs[r].finished
    /\ runs[r].total = 3
    /\ runs[r].outcomes = <<"ok", "http", "ok">>
    /\ status = "done"
    /\ results = runs[r].out
    /\ results[2].status = "error"

\* A primary run is active: a search or mock run that has not ended, or a
\* directory pass between its request and its end.
PrimaryActive ==
  \/ \E r \in DOMAIN runs : ~runs[r].finished
  \/ wm.pc # "idle"

\* The page as shipped: mockMode is false and nothing sets it.  The claims
\* that the code contradicts are stated for the shipped page, so that what
\* refutes them is a behaviour of the program as it runs.
Shipped == ~mockMode

\* C5: the published progress never decreases within a run (a run request
\* resets it to 0), and it is 100 exactly when the status is Done.
C5_ProgressMonotoneAndFullIffDone ==
  /\ [](Shipped => ((progress = 100) <=> (status = "done")))
  /\ [][Shipped => (progress' >= progress \/ (progress' = 0 /\ ~PrimaryActive))]_vars

\* C6: after a collaborator call for one identifier has failed (thrown, or
\* answered non-2xx) in the search run, the directory pass or the enhance
\* pass, that identifier's entry has status ERROR and a non-empty reason.
Recorded(entry) ==
  entry # Hole /\ entry.status = "error" /\ entry.error \notin {"", Absent}

C6_FailuresRecorded ==
  Shipped =>
  /\ \A r \in RealRuns : \A i \in 1..runs[r].total :
       runs[r].outcomes[i] \in {"http", "throw"} => Recorded(runs[r].out[i])
  /\ \A i \in DOMAIN wm.outcomes :
       wm.outcomes[i] \in {"http", "throw"} => Recorded(wm.enhancedResults[i])
  /\ enh.last \in {"http", "throw"} => Recorded(enh.enhancedResults[enh.i])

\* C7: a run request without a valid identifier (no row with a non-empty
\* trimmed name, or a listing of zero entries) sets status Failed and issues
\* no call for any identifier.
C7_NoValidIdentifierFails ==
  [][Shipped =>
     /\ (handler = "onRun" /\ ValidPositions(inputRows) = {})
          => (status' = "failed" /\ runs' = runs)
     /\ (wm.pc = "listing" /\ wm'.pc = "idle")
          => (status' = "failed" /\ wm'.requests = 0)]_vars

C10_DoneOnlyWhenAllCompleted ==
  Shipped /\ status = "done" =>
    /\ \A r \in DOMAIN runs : runs[r].completed = runs[r].total
    /\ \A r \in RealRuns : InFlight(runs[r]) = 0
    /\ wm.pc = "idle"

\* C11: if every call that was sent is answered or fails, every started run
\* (search run, mock run, directory pass) ends; the step in which it ends
\* publishes status Done or Failed; after that step the run publishes
\* nothing; and once the queue of a search run is empty no further call is
\* issued and a run that has ended has no call in flight.
C11_EveryRunEnds ==
  /\ \A r \in 1..MaxRuns : (Len(runs) >= r) ~> (Len(runs) >= r /\ runs[r].finished)
  /\ (handler = "onRun") ~> (handler = "none")
  /\ (wm.pc # "idle") ~> (wm.pc = "idle" /\ wm.ended \in {"done", "failed"})
  /\ [](\A r \in DOMAIN runs :
          runs[r].finished => InFlight(runs[r]) = 0 /\ runs[r].queue = <<>>)
  /\ [][/\ \A r \in DOMAIN runs :
            /\ Finishes(r) => status' = "done"
            /\ runs[r].finished => runs'[r] = runs[r]
            /\ runs[r].queue = <<>> => runs'[r].calls = runs[r].calls
        /\ (wm.pc # "idle" /\ wm'.pc = "idle")
             => (status' \in {"done", "failed"} /\ wm'.ended = status')
        /\ (wm.pc = "idle" /\ wm' # wm) => wm'.pc = "listing"]_vars

\* A search run of three identifiers and a directory pass of two companies
\* were under way together and both have ended.
C11_Witness ==
  /\ \E r \in RealRuns : runs[r].finished /\ runs[r].total = 3
  /\ wm.ended = "done"
  /\ Len(wm.companies) = 2
  /\ wm.requests = 2

\* A placeholder: status OK and no field of the record filled in.
Placeholder(entry, name) ==
  /\ entry.company_name = name
  /\ entry.status = "ok"
  /\ entry.homepage \in {"", Absent}
  /\ entry.phone = Absent
  /\ entry.error = Absent

\* C12: every table a run publishes while it is under way has one entry per
\* identifier, at the identifier's position, and the entry of an identifier
\* whose call has not completed is a placeholder; for the search run (the
\* table a worker publishes) and for the directory pass alike.
C12_EverySnapshotAligned ==
  [][Shipped =>
       /\ \A r \in RealRuns :
            runs'[r].completed > runs[r].completed =>
              /\ Len(results') = runs[r].total
              /\ \A i \in 1..runs[r].total :
                   IF runs'[r].outcomes[i] = "none"
                   THEN Placeholder(results'[i], runs[r].rows[i].company_name)
                   ELSE results'[i] = runs'[r].out[i]
       /\ (wm' # wm /\ wm'.pc \in {"detail", "delay"} /\ results' # results) =>
              /\ Len(results') = Len(wm'.companies)
              /\ \A i \in 1..Len(wm'.companies) :
                   IF wm'.outcomes[i] = "none"
                   THEN Placeholder(results'[i], wm'.companies[i])
                   ELSE results'[i].company_name = wm'.companies[i]]_vars

\* The table holds the outcome of the identifier of entry.
HasOutcome(table, entry) ==
  \E j \in DOMAIN table :
    table[j].company_name = entry.company_name /\ table[j].status = entry.status

\* C13: while a search run or a directory pass is under way, a completed
\* outcome that the published table holds is still held by the table after
\* every step, whichever pass takes the step.
C13_EntriesNeverRemoved ==
  [][Shipped =>
       /\ \A r \in RealRuns : \A i \in 1..runs[r].total :
            (/\ ~runs[r].finished
             /\ runs[r].outcomes[i] # "none"
             /\ HasOutcome(results, runs[r].out[i]))
              => HasOutcome(results', runs[r].out[i])
       /\ \A i \in DOMAIN wm.outcomes :
            (/\ wm.pc \in {"detail", "delay"}
             /\ wm.outcomes[i] # "none"
             /\ HasOutcome(results, wm.enhancedResults[i]))
              => HasOutcome(results', wm.enhancedResults[i])]_vars

\* The enhance pass starts (the click issues its first lookup) or publishes
\* (a lookup ends and the copy of the table is published) in this step.
EnhanceStarts == enh.pc = "idle" /\ enh'.pc = "call"

EnhancePublishes == enh.pc = "call" /\ enh'.pc # "call"

\* C14: the enhance pass neither starts nor publishes while the status is
\* Running or a primary run (search run, directory pass) is under way.
C14_EnhanceOnlyOnFinishedTable ==
  [][Shipped /\ (EnhanceStarts \/ EnhancePublishes)
       => (status # "running" /\ ~PrimaryActive)]_vars

\* The tokens of the textarea after trim, and the positions of the non-empty
\* ones whose lower-cased spelling occurs at no earlier position.
TrimmedTokens == [k \in 1..Len(textValue) |-> Trim(textValue[k])]

FirstOccurrences ==
  {p \in 1..Len(textValue) :
     /\ TrimmedTokens[p] # ""
     /\ \A q \in 1..(p - 1) :
          toLowerCase(TrimmedTokens[q]) # toLowerCase(TrimmedTokens[p])}

\* C15: the rows parsed from the textarea are the first occurrences of the
\* lower-cased names, in input order and in their original spelling, numbered
\* 1..n, with no empty name and no two names equal up to case.
C15_ParseDeduplicates ==
  /\ Len(inputRows) = Cardinality(FirstOccurrences)
  /\ \A k \in 1..Len(inputRows) :
       /\ inputRows[k].id = k
       /\ inputRows[k].valid
       /\ inputRows[k].company_name # ""
       /\ inputRows[k].company_name = TrimmedTokens[IthOf(FirstOccurrences, k)]
       /\ \A j \in 1..(k - 1) :
            toLowerCase(inputRows[j].company_name) # toLowerCase(inputRows[k].company_name)

\* The example of the claim: Acme, acme, ACME Inc gives Acme and ACME Inc.
C15_Witness ==
  /\ textValue = <<"Acme", "acme", "ACME Inc">>
  /\ Len(inputRows) = 2
  /\ inputRows[1] = [id |-> 1, company_name |-> "Acme", valid |-> TRUE]
  /\ inputRows[2] = [id |-> 2, company_name |-> "ACME Inc", valid |-> TRUE]

\* C16: the directory pass issues its detail requests one at a time, in list
\* order, each after the listing answer or after a delay step and never in
\* the step in which a request ends; a request that ends, with success or
\* failure, is followed by a delay step unless it was the last, and the last
\* is followed by the end of the pass; no second pass starts during a pass.
C16_DetailRequestsSpaced ==
  /\ [](/\ isLoadingWealthManagers <=> wm.pc # "idle"
        /\ wm.pc = "detail" => wm.requests = wm.i /\ wm.i \in 1..Len(wm.companies)
        /\ wm.pc = "delay" => wm.requests = wm.i /\ wm.i < Len(wm.companies))
  /\ [][/\ wm'.requests > wm.requests =>
            /\ wm.pc \in {"listing", "delay"}
            /\ wm'.pc = "detail"
            /\ wm'.requests = wm.requests + 1
            /\ wm'.i = wm.requests + 1
            /\ currentlyProcessing' = wm'.companies[wm'.i]
        /\ (wm.pc = "detail" /\ wm' # wm) =>
            /\ wm'.outcomes[wm.i] \in DetailResponses
            /\ wm'.requests = wm.requests
            /\ IF wm.i < Len(wm.companies)
               THEN wm'.pc = "delay" /\ wm'.i = wm.i
               ELSE wm'.pc = "idle" /\ wm'.ended = "done"
        /\ (wm'.pc = "listing" /\ wm' # wm) => wm.pc = "idle"]_vars

\* The second detail request is in flight after the first one failed and the
\* delay elapsed.
C16_Witness ==
  /\ wm.pc = "detail"
  /\ wm.i = 2
  /\ wm.requests = 2
  /\ wm.outcomes[1] = "throw"

\* The name a request body carries, in the words of the claims: the company
\* field, or the name field when company is missing or empty, trimmed; a
\* body that is no object carries neither.
NameCarried(body) ==
  LET c == IF body.kind = "object" THEN body.company ELSE JsUndefined
      n == IF body.kind = "object" THEN body.name ELSE JsUndefined
  IN Trim(JsToString(IF Truthy(c) THEN c ELSE IF Truthy(n) THEN n ELSE JsString("")))

Answered == {j \in DOMAIN route : route[j].pc = "done"}

\* C17: a request is answered 400 with the text 'Body must include' exactly
\* when it carries no name; a request that carries one is never answered 400.
C17_BadRequestIffNoName ==
  \A j \in Answered :
    (/\ route[j].response.status = 400
     /\ route[j].response.error.prefix = "Body must include ")
      <=> NameCarried(route[j].body) = ""

\* C18: when the collaborator call of an accepted request fails, in either
\* mode, the request is answered 500 with a message that starts with
\* 'Perplexity API error'; the step changes no other request, and an answer
\* once given is never changed.
C18_CallFailureIs500 ==
  [][\A j \in DOMAIN route :
       /\ (route[j].pc \in {"text", "object"} /\ route'[j].pc = "done"
             /\ route'[j].response.status # 200)
            => /\ route'[j].response.status = 500
               /\ route'[j].response.error.prefix = "Perplexity API error: "
               /\ route'[j].response.error.detail \in CallFailures
               /\ Len(route') = Len(route)
               /\ \A k \in DOMAIN route : k # j => route'[k] = route[k]
       /\ route[j].pc = "done" => route'[j] = route[j]]_vars

\* An executive request whose call failed for want of an API key was answered
\* 500, and a contact request served next to it was answered 200.
C18_Witness ==
  /\ Len(route) = 2
  /\ route[1].objectCalls = 1
  /\ route[1].response = [status |-> 500, error |-> PerplexityError("auth")]
  /\ route[2].textCalls = 1
  /\ route[2].response.status = 200

IsArray(x) == x # Absent /\ Len(x) >= 0

\* The shape of the contact answer.
ContactShape(json) ==
  /\ {"company", "contacts", "executives", "sources"} \subseteq DOMAIN json
  /\ json.company \notin {"", Absent}
  /\ IsArray(json.contacts.emails)
  /\ IsArray(json.contacts.phones)
  /\ IsArray(json.executives.cofounders)
  /\ IsArray(json.sources)

\* The shape of the executive answer.
ExecutiveShape(json) ==
  /\ DOMAIN json = {"ceo", "cofounders", "structured"}
  /\ json.ceo \notin {"", Absent}
  /\ IsArray(json.cofounders)
  /\ json.structured

\* C19 as stated: every 200 answer has company, contacts.emails,
\* contacts.phones, executives.cofounders and sources.
C19_Every200HasContactShape ==
  \A j \in Answered :
    route[j].response.status = 200 => ContactShape(route[j].response.json)

\* C19 amended: the 200 answer to a request without enhance has the contact
\* shape and its company is the trimmed name of the request; the 200 answer
\* to a request with a truthy enhance has ceo (a name or null), cofounders
\* (an array) and structured = true, and none of the contact fields.
C19_Every200HasShapeOfItsMode ==
  \A j \in Answered :
    route[j].response.status = 200 =>
      IF Truthy(Field(route[j].body, "enhance"))
      THEN ExecutiveShape(route[j].response.json)
      ELSE /\ ContactShape(route[j].response.json)
           /\ route[j].response.json.company = NameCarried(route[j].body)

\* A contact request and an executive request whose answer object had neither
\* field were both answered 200.
C19_Witness ==
  /\ Len(route) = 2
  /\ route[1].response.status = 200 /\ route[1].textCalls = 1
  /\ route[2].response.status = 200 /\ route[2].objectCalls = 1
  /\ route[2].response.json.cofounders = <<>>

\* C20: a request answered 400 made no collaborator call; an accepted request
\* made exactly one, the schema-constrained call when enhance is truthy and
\* the free-text call otherwise; and no request makes a call later.
C20_OneCallPerAcceptedRequest ==
  /\ [](\A j \in DOMAIN route :
          LET r == route[j]
              accepted == r.body.kind # "null" /\ NameCarried(r.body) # ""
          IN /\ r.response.status = 400 => r.textCalls = 0 /\ r.objectCalls = 0
             /\ accepted => r.textCalls + r.objectCalls = 1
             /\ (accepted /\ Truthy(Field(r.body, "enhance"))) => r.objectCalls = 1
             /\ (accepted /\ ~Truthy(Field(r.body, "enhance"))) => r.textCalls = 1
             /\ ~accepted => r.textCalls + r.objectCalls = 0)
  /\ [][\A j \in DOMAIN route :
          /\ route'[j].textCalls = route[j].textCalls
          /\ route'[j].objectCalls = route[j].objectCalls]_vars

\* A request with enhance = "false" (a truthy string) made the executive call
\* and was answered; a request with a blank company was answered 400.
C20_Witness ==
  /\ Len(route) = 2
  /\ route[1].body.kind = "object"
  /\ route[1].body.enhance = JsString("false")
  /\ route[1].objectCalls = 1 /\ route[1].textCalls = 0
  /\ route[1].response.status = 200
  /\ route[2].response.status = 400
  /\ route[2].textCalls + route[2].objectCalls = 0

\* Contact answers given: the text handed to extractCompanyData is raw_text.
ContactAnswers ==
  {j \in Answered : route[j].response.status = 200 /\ route[j].textCalls = 1}

\* The positions of a text inside its CONTACT INFO section: after the first
\* marker of that name and before the next marker of any section.
InContactInfo(text) ==
  {p \in DOMAIN text :
     \E m \in 1..(p - 1) :
       /\ text[m] = TextLine("marker", "CONTACT INFO")
       /\ \A q \in 1..(m - 1) : text[q] # TextLine("marker", "CONTACT INFO")
       /\ \A q \in (m + 1)..p : text[q].label # "marker"}

\* The value of the first line with the label among the positions, if any.
ValueAt(text, label, positions) ==
  LET labeled == {p \in positions : text[p].label = label}
  IN IF labeled = {} THEN Absent
     ELSE text[CHOOSE p \in labeled : \A q \in labeled : p <= q].value

Bracketed(value) ==
  value \in {"[company's main website URL]", "[contact page URL if found]"}

\* The field a label value gives according to C21.
FieldClaimed(value) ==
  IF value = Absent \/ value = "Not found" \/ Bracketed(value) THEN Absent ELSE value

\* C21: when every labeled line of the answer lies inside the CONTACT INFO
\* section, a field is absent if its label value is 'Not found' or wrapped in
\* brackets (or there is no such line), and is the value otherwise.
C21_SentinelAndPlaceholderAbsent ==
  \A j \in ContactAnswers :
    LET json == route[j].response.json
        text == json.raw_text
        inside == InContactInfo(text)
    IN (\A p \in DOMAIN text : text[p].label \in {"homepage", "contact"} => p \in inside)
         => /\ json.homepage = FieldClaimed(ValueAt(text, "homepage", inside))
            /\ json.contacts.contact_page = FieldClaimed(ValueAt(text, "contact", inside))

\* C22: a field that is populated has the value (brackets stripped or not)
\* of a line with its label inside the CONTACT INFO section.
C22_OnlyLinesInsideSection ==
  \A j \in ContactAnswers :
    LET json == route[j].response.json
        text == json.raw_text
        inside == InContactInfo(text)
    IN /\ json.homepage # Absent =>
            \E p \in inside : /\ text[p].label = "homepage"
                               /\ json.homepage \in {text[p].value, StripBrackets(text[p].value)}
       /\ json.contacts.contact_page # Absent =>
            \E p \in inside : /\ text[p].label = "contact"
                               /\ json.contacts.contact_page \in
                                    {text[p].value, StripBrackets(text[p].value)}

\* C23: whatever the answer text, the record has the fallback company name
\* and empty emails, phones, cofounders and sources; its homepage and contact
\* page are absent when the text has no CONTACT INFO marker or no line with
\* the label, and are otherwise absent or a value taken from such a line.
C23_ExtractNeverFails ==
  \A j \in ContactAnswers :
    LET json == route[j].response.json
        text == json.raw_text
        values(label) == {text[p].value : p \in {q \in DOMAIN text : text[q].label = label}}
        noSection == \A p \in DOMAIN text : text[p] # TextLine("marker", "CONTACT INFO")
    IN /\ json.company = route[j].company
       /\ json.contacts.emails = <<>> /\ json.contacts.phones = <<>>
       /\ json.executives.cofounders = <<>> /\ json.sources = <<>>
       /\ (noSection \/ values("homepage") = {}) => json.homepage = Absent
       /\ (noSection \/ values("contact") = {}) => json.contacts.contact_page = Absent
       /\ json.homepage \in {Absent} \cup {StripBrackets(v) : v \in values("homepage")}
       /\ json.contacts.contact_page \in
            {Absent} \cup {StripBrackets(v) : v \in values("contact")}

\* An answer with labeled lines but no CONTACT INFO marker was parsed: every
\* field kept its default.
C23_Witness ==
  \E j \in ContactAnswers :
    /\ route[j].response.json.raw_text =
         << TextLine("marker", "NOTES"), TextLine("homepage", "https://example.com"),
            TextLine("contact", "https://example.com/contact") >>
    /\ route[j].response.json.homepage = Absent
    /\ route[j].response.json.contacts.contact_page = Absent
    /\ route[j].response.json.company = "acme"

\* ------------------------------------------------- claims on the list endpoint
\* The request in service asks for the plain list (fetchDetails false or left out).
PlainList == listing.pc # "idle" /\ listing.body.kind = "object" /\ ~FetchDetailsOf(listing.body)

\* The request in service was answered with status 200.
ListAnswered == listing.pc = "done" /\ listing.response.status = 200

\* C24: a request for the plain list with limit L fetches the listing URL once
\* and no other URL, and its answer holds the first min(L, D) of the D entries
\* discovered in the page, in the order of discovery, with D as the total.
C24_PlainListIsOneRequestAndAPrefix ==
  PlainList =>
    /\ listing.fetched = <<TARGET_URL>>
    /\ ListAnswered =>
         LET discovered == parseCompanyUrls(listing.html)
             L == IF listing.body.limit = LimitLeftOut THEN DefaultLimit
                  ELSE listing.body.limit[1]
             returned == listing.response.json.companies
         IN /\ Len(returned) = IF L < Len(discovered) THEN L ELSE Len(discovered)
            /\ \A k \in 1..Len(returned) : returned[k] = discovered[k]
            /\ listing.response.json.total = Len(discovered)

\* A plain-list request with limit 2 was answered from a page with three
\* entries: the limit cut the list.
C24_Witness ==
  /\ PlainList /\ ListAnswered
  /\ listing.body.limit = LimitGiven(2)
  /\ Len(listing.companies) = 3
  /\ Len(listing.response.json.companies) = 2

\* Positions of the anchors parseCompanyUrls may keep: href with /profile/ and
\* a non-empty name.
Qualifying(anchors) ==
  {p \in DOMAIN anchors : ContainsProfile(anchors[p].href) /\ anchors[p].name # ""}

\* Position of the first qualifying anchor that resolves to url.
FirstSeen(anchors, url) ==
  CHOOSE p \in Qualifying(anchors) :
    /\ Resolve(anchors[p].href) = url
    /\ \A q \in Qualifying(anchors) : Resolve(anchors[q].href) = url => p <= q

\* C25: for every sequence of anchors inside the container, the entries have
\* pairwise distinct URLs; the URLs are exactly the resolved hrefs of the
\* anchors with /profile/ and a non-empty name; each entry carries the name of
\* the first such anchor of its URL; and entries are in first-seen order.
C25_DistinctFirstSeenInOrder ==
  (ListAnswered /\ listing.html.container) =>
    LET anchors == listing.html.anchors
        out == listing.companies
    IN /\ \A a, b \in DOMAIN out : out[a].url = out[b].url => a = b
       /\ {out[a].url : a \in DOMAIN out}
            = {Resolve(anchors[p].href) : p \in Qualifying(anchors)}
       /\ \A a \in DOMAIN out :
            out[a].company_name = anchors[FirstSeen(anchors, out[a].url)].name
       /\ \A a, b \in DOMAIN out :
            a < b => FirstSeen(anchors, out[a].url) < FirstSeen(anchors, out[b].url)

\* A page whose container holds the same profile twice, once as a relative and
\* once as an absolute href, with another profile between: two entries.
C25_Witness ==
  /\ ListAnswered /\ listing.html.container
  /\ Len(listing.html.anchors) = 3
  /\ listing.html.anchors[1] = Anchor("/profile/acme", "Acme")
  /\ listing.html.anchors[2].href = "/profile/zeta" /\ listing.html.anchors[2].name # ""
  /\ listing.html.anchors[3] = Anchor("https://dev.swfinstitute.org/profile/acme", "Acme Ltd")
  /\ Len(listing.companies) = 2

\* C26: when the listing request fails (network failure or non-2xx answer) the
\* endpoint answers 500 with an error message and no companies field; no
\* profile was requested.
C26_ListingFailureIsOne500 ==
  [][(listing.pc = "fetching" /\ listing'.pc = "done" /\ listing'.html = NotFetched) =>
       /\ listing'.response.status = 500
       /\ DOMAIN listing'.response = {"status", "error"}
       /\ listing'.response.error \in FetchFailures
       /\ listing'.fetched = <<TARGET_URL>>]_vars

\* The listing request of a fetchDetails request failed with a non-2xx answer.
C26_Witness ==
  /\ listing.pc = "done" /\ listing.body.kind = "object" /\ FetchDetailsOf(listing.body)
  /\ listing.html = NotFetched
  /\ listing.response = [status |-> 500, error |-> "http"]

\* C30: when the page has no list-group container, the profile anchors of the
\* page with a non-empty name are still discovered.
C30_FallsBackToWholeDocument ==
  (ListAnswered /\ ~listing.html.container) =>
    {listing.companies[a].url : a \in DOMAIN listing.companies}
      = {Resolve(listing.html.anchors[p].href) : p \in Qualifying(listing.html.anchors)}

\* ---------------------------------------------- claims on the details endpoint
\* The details request in service carries a url.
CarriesUrl == details.pc # "idle" /\ Truthy(UrlOf(details.body))

\* The details request in service was answered.
DetailsAnswered == details.pc = "done"

\* The profile page arrived and was scanned.
ProfileScanned ==
  DetailsAnswered /\ details.response.status = 200 /\ details.failure = "none"

\* C27: a request that carries a url is answered 200 with the record found, the
\* empty record when the profile request failed, and every request without a
\* url is answered 400.
C27_200WithUrlAnd400Without ==
  DetailsAnswered =>
    IF CarriesUrl
    THEN /\ details.response.status = 200
         /\ details.failure # "none" => details.response.json = NoAttributes
    ELSE details.response.status = 400

\* The value of the first row of rows whose key is in keys and whose value is
\* not empty; Absent when there is none.
FirstValue(rows, keys) ==
  LET cellsAt(p) == CellsOf(rows[p])
      hits == {p \in DOMAIN rows :
                 /\ Len(cellsAt(p)) >= 2
                 /\ Trim(toLowerCase(cellsAt(p)[1])) \in keys
                 /\ Trim(cellsAt(p)[2]) # ""}
  IN IF hits = {} THEN Absent
     ELSE Trim(cellsAt(CHOOSE p \in hits : \A q \in hits : p <= q)[2])

\* The rows in the order the two scans visit them.
ScanOrder(html) == InTables(html) \o InProfileSection(html)

\* C28: each field of the record is the value of the first row, in the order
\* the rows are scanned, whose key names the field (phone, telephone or tel in
\* any case for phone) and whose value is not empty; no later row changes it,
\* and the field is absent when there is no such row.
C28_FirstNonEmptyRowWins ==
  ProfileScanned =>
    LET rows == ScanOrder(details.html)
        json == details.response.json
    IN /\ json.phone = FirstValue(rows, {"phone", "telephone", "tel"})
       /\ json.country = FirstValue(rows, {"country"})
       /\ json.city = FirstValue(rows, {"city"})

\* A table with a Phone row whose value is empty, then TELEPHONE 222, then
\* Phone 111: the phone is 222.
C28_Witness ==
  /\ ProfileScanned
  /\ details.html = << TableRow("page", <<"Phone:", ": :">>),
                        TableRow("page", <<"TELEPHONE", "222">>),
                        TableRow("page", <<"Phone", "111">>) >>
  /\ details.response.json.phone = "222"

\* C29: for each field, when the rows of the profile section and the rows of
\* all tables both give a value and the two values differ, the record has the
\* value from the profile section.
C29_SectionValueWins ==
  ProfileScanned =>
    LET section == InProfileSection(details.html)
        whole == InTables(details.html)
        json == details.response.json
        wins(keys, got) ==
          (/\ FirstValue(section, keys) # Absent
           /\ FirstValue(whole, keys) # Absent
           /\ FirstValue(section, keys) # FirstValue(whole, keys))
            => got = FirstValue(section, keys)
    IN /\ wins({"phone", "telephone", "tel"}, json.phone)
       /\ wins({"country"}, json.country)
       /\ wins({"city"}, json.city)

\* ------------------------------------------- claims on progress and ownership
\* The step in which the call for an identifier of search run r completes.
SearchCompletes(r) == runs'[r].completed = runs[r].completed + 1

\* The step in which the detail request of the directory pass completes.
DetailCompletes == wm.pc = "detail" /\ wm'.outcomes # wm.outcomes

\* C31: each time an identifier completes, with success or failure, the
\* published progress is round(100 * completed / total) for the completed count
\* after that step; in the directory pass that count is the position of the
\* company whose detail request ended.
C31_EveryCompletionAdvancesProgress ==
  [][Shipped =>
       /\ \A r \in DOMAIN runs :
            SearchCompletes(r) => progress' = RoundPercent(runs'[r].completed, runs[r].total)
       /\ DetailCompletes => progress' = RoundPercent(wm.i, Len(wm.companies))]_vars

\* C32: whenever an identifier of a search run or of the directory pass
\* completes and completed is still below total, the percentage published in
\* that step is below 100.
C32_FullOnlyWhenAllCompleted ==
  [][Shipped =>
       /\ \A r \in DOMAIN runs :
            (SearchCompletes(r) /\ runs'[r].completed < runs[r].total) => progress' < 100
       /\ (DetailCompletes /\ wm.i < Len(wm.companies)) => progress' < 100]_vars

\* The step in which the user starts a primary run: onRun passes its first
\* test, or loadWealthManagers begins.
PrimaryStarts ==
  \/ handler = "none" /\ handler' = "onRun"
  \/ wm.pc = "idle" /\ wm'.pc = "listing"

\* C33: while a primary run has not reached done or failed, no primary run of
\* either kind starts.
C33_OnePrimaryRunAtATime ==
  [][(Shipped /\ PrimaryActive) => ~PrimaryStarts]_vars

\* C34: when the call for identifier i completes in a search run or in the
\* directory pass, the entry of every other identifier in the array of that
\* run (out, enhancedResults) is the same before and after the step.
C34_OnlyOwnIndexWritten ==
  [][/\ \A r \in DOMAIN runs :
          SearchCompletes(r) =>
            \A j \in 1..runs[r].total :
              runs[r].outcomes[j] = runs'[r].outcomes[j] => runs'[r].out[j] = runs[r].out[j]
     /\ DetailCompletes =>
          \A j \in DOMAIN wm.enhancedResults :
            j # wm.i => wm'.enhancedResults[j] = wm.enhancedResults[j]]_vars

\* A search run in which the call for the second row completed before the call
\* for the first: out[2] is written while out[1] is still a hole.
C34_Witness ==
  \E r \in RealRuns :
    /\ runs[r].total >= 2
    /\ runs[r].out[1] = Hole
    /\ runs[r].out[2] # Hole
    /\ runs[r].completed = 1

\* ------------------------------------------------- claims on the enhance pass
\* Two entries that differ at most in ceo, cofounders and raw_text.
SameButExecutives(old, new) ==
  /\ new.company_name = old.company_name
  /\ new.status = old.status
  /\ new.error = old.error
  /\ new.phone = old.phone
  /\ new.homepage = old.homepage

\* A lookup is issued: by the click, or when the timer expires.
LookupIssued == enh'.pc = "call" /\ (enh.pc # "call" \/ enh'.i # enh.i)

\* C35: the enhance pass issues a lookup only for an entry whose status is ok,
\* in table order, and a step of the pass leaves the table's length and order,
\* every entry's fields other than ceo, cofounders and raw_text, and the run
\* status and progress unchanged.
C35_EnhanceChangesOnlyExecutiveFields ==
  [][Shipped =>
       /\ LookupIssued =>
            /\ enh'.enhancedResults[enh'.i].status = "ok"
            /\ enh.pc = "delay" => enh'.i > enh.i
       /\ (EnhancePublishes \/ LookupIssued) =>
            /\ Len(results') = Len(results)
            /\ \A k \in DOMAIN results : SameButExecutives(results[k], results'[k])
            /\ status' = status
            /\ progress' = progress]_vars

\* A returned ceo the pass stores: neither undefined, null nor "".
CeoReturned(data) == Has(data, "ceo") /\ data.ceo \notin {Absent, "null", ""}

\* A returned cofounders list the pass stores.
CofoundersReturned(data) == Has(data, "cofounders") /\ data.cofounders # <<>>

\* The lookup for entry enh.i is answered 200 with a structured body.
StructuredAnswer ==
  /\ EnhancePublishes
  /\ enh'.last = "ok"
  /\ Has(enh'.answer, "structured")

\* C36: with a structured answer, a non-empty returned ceo or cofounders list
\* replaces the entry's value of that field, an absent or empty one leaves it as
\* it was, and a value that is present is never replaced by an empty one.
C36_NonEmptyReplacesEmptyKeeps ==
  [][StructuredAnswer =>
       LET data == enh'.answer
           old == results[enh.i]
           new == results'[enh.i]
       IN /\ new.ceo = IF CeoReturned(data) THEN data.ceo ELSE old.ceo
          /\ new.cofounders = IF CofoundersReturned(data) THEN data.cofounders
                               ELSE old.cofounders
          /\ old.ceo \notin {Absent, "null", ""} => new.ceo \notin {Absent, "null", ""}
          /\ old.cofounders # <<>> => new.cofounders # <<>>
          /\ new.raw_text = old.raw_text]_vars

\* In the second pass an answer with an empty ceo and a new cofounders list has
\* arrived: the ceo of the first pass is kept and the list is the new one.
C36_Witness ==
  /\ budget.enhances = 0
  /\ enh.pc # "call"
  /\ enh.i > 0
  /\ enh.last = "ok"
  /\ enh.answer = [structured |-> TRUE, ceo |-> "", cofounders |-> <<"Bob", "Cy">>]
  /\ results[enh.i].ceo = "Jane Roe"
  /\ results[enh.i].cofounders = <<"Bob", "Cy">>

\* The pass has run to its end.
PassEnded == enh.pc = "idle" /\ enh.lookups # <<>>

\* C37: a failing lookup does not stop the pass.  When the pass has ended, every
\* entry with status ok has been looked up exactly once and no other entry has
\* been looked up, whatever lookups failed; and, every call returning or failing,
\* the pass ends with isEnhancing reset to false.
C37_FailureDoesNotStopThePass ==
  /\ [](PassEnded =>
          \A k \in DOMAIN enh.lookups :
            enh.lookups[k] = IF enh.enhancedResults[k].status = "ok" THEN 1 ELSE 0)
  /\ [](enh.pc # "idle" => isEnhancing)
  /\ (isEnhancing ~> (PassEnded /\ ~isEnhancing))

\* The pass has ended, the lookup for the first entry failed and the second
\* entry was looked up and answered.
C37_Witness ==
  /\ PassEnded
  /\ ~isEnhancing
  /\ Len(enh.lookups) = 2
  /\ 1 \in enh.failed
  /\ enh.lookups[2] = 1
  /\ enh.last = "ok"

\* ------------------------------------------------ claims on the two extractors
\* Rows of a page with at least two td cells whose first cell, lower-cased and
\* trimmed, is one of keys.
RowsKeyed(html, keys) ==
  {p \in DOMAIN html :
     /\ Len(html[p].cells) >= 2
     /\ Trim(toLowerCase(CellText(html[p].cells[1]))) \in keys}

\* C38: a value stored by the details route is the text of the second cell of
\* a row of the page that has at least two cells and whose first cell is a key
\* of that field, also when the row has a cell that is empty.
C38_ValueIsSecondCell ==
  ProfileScanned =>
    LET html == details.html
        json == details.response.json
        second(keys) == {Trim(CellText(html[p].cells[2])) : p \in RowsKeyed(html, keys)}
    IN /\ json.phone # Absent => json.phone \in second(PhoneKeys)
       /\ json.country # Absent => json.country \in second({"country"})
       /\ json.city # Absent => json.city \in second({"city"})

\* The list route fetched a profile page for an entry of its answer.
Listed(k) == k \in DOMAIN listing.profiles /\ listing.profiles[k].ok

\* C39: for every profile page the list route fetched, the phone, country and
\* city it put into the entry are those the details route's
\* fetchProfileAttributes returns for the same page.
C39_ExtractorsAgree ==
  listing.pc # "idle" =>
    \A k \in DOMAIN listing.detailedCompanies :
      Listed(k) =>
        LET entry == listing.detailedCompanies[k]
            other == ProfileAttributesOf(listing.profiles[k].html)
        IN /\ entry.phone = other.phone
           /\ entry.country = other.country
           /\ entry.city = other.city

====
